---- MODULE Spec2Model ----
(***************************************************************************)
(* Channel engine of bplib (lib/bplib.c): the active table, the custody    *)
(* IDs, the retransmit scan of bplib_load, the acknowledgment path of      *)
(* bplib_process, bplib_flush, bplib_config and bplib_store, over an       *)
(* abstract storage service and a clock.                                   *)
(***************************************************************************)
EXTENDS Integers, Sequences, FiniteSets, TLC

(* ------------------------------ bounds -------------------------------- *)
ActiveTableSize == 2      \* attributes.active_table_size given to bplib_open
MaxBundles == 3           \* bundles bplib_store may enqueue in one behaviour
MaxTime == 2              \* largest value of the system clock
MaxFill == 2              \* longest single run of an incoming ACS record
MaxGap == 1               \* longest gap of an incoming ACS record
MaxAckCid == 3            \* largest first CID of an incoming ACS record
MaxCid == 4               \* custody IDs a channel issues in one behaviour
MaxRecvCid == 5           \* largest ordinary CID the custody engine accumulates
FarCid == 16400           \* a CID more than a two-byte fill away from the ordinary ones
HugeCid == 268435456      \* a CID that needs more than four 7-bit groups
DacsRecSize == 32         \* bytes of the buffer an ACS record is written to
MaxFillsPerDacs == 4      \* the small max_fills_per_dacs a writer may be given
MaxTreeSize == 4          \* largest capacity an interval tree is created with
MaxValue == 5             \* largest low value inserted into an interval tree
MaxInserts == 5           \* calls of insert on one tree
MaxPermute == 7           \* largest N whose permutations of 0 .. N-1 are inserted
BlockSize == 4            \* bytes of the block an SDNV is written to
MaxIndex == 2             \* largest index an SDNV is written at
MaxWidth == 3             \* largest fixed width of an SDNV
MaxSdnvValue == 16384     \* largest value written as an SDNV
MaxCalls == 3             \* calls of load and process the two threads make
MaxScanCid == 5           \* custody IDs issued where the scan of load is followed

(* ------------------------- program constants -------------------------- *)
BP_SID_VACANT == 0

TimeoutSecs == 1          \* the non-zero custody timeout a channel may use
LifetimeSecs == 2         \* the non-zero lifetime a channel may use

WrapResponses == {"RESEND", "BLOCK", "DROP"}
Slots == 0 .. (ActiveTableSize - 1)
Sids == 1 .. MaxBundles

VARIABLES
    attributes,     \* ch->attributes
    bundle,         \* ch->bundle: prebuilt flag and the template built by v6_build
    active_table,   \* ch->active_table[]: {sid, retx}
    oldest_active_cid,
    current_active_cid,
    stats,          \* ch->stats, counted from the entry of the last call
    store,          \* bundle storage service: queue, retained sids, bundle data
    sysnow,         \* bplib_os_systime
    issued,         \* the CIDs handed to bundle_update, in order
    last,           \* the call that has returned and whose result the caller
                    \* has not taken yet: operation, status, flags, calls made
    acs,            \* the custody engine's CID set, the ACS record written from
                    \* it and what the reader made of the record
    rb,             \* an interval tree, the last value inserted, what insert
                    \* returned, and the number and the set of values inserted
    codec,          \* a byte block, the SDNV last written to it and what the
                    \* write and the read that followed returned
    threads,        \* two threads calling load and process on one channel:
                    \* where each is, who is between lock and unlock, and
                    \* the counter stats.expired they share
    loaders         \* the calls of load two threads have in progress between
                    \* their locked sections, each with its local variables

\* the channel, and the components checked on their own
channel == <<attributes, bundle, active_table, oldest_active_cid, current_active_cid,
             stats, store, sysnow, issued, last>>
components == <<acs, rb, codec, threads, loaders>>
vars == <<channel, components>>
besides_acs == <<channel, rb, codec, threads, loaders>>
besides_rb == <<channel, acs, codec, threads, loaders>>
besides_codec == <<channel, acs, rb, threads, loaders>>
besides_threads == <<channel, acs, rb, codec, loaders>>

ATI(cid) == cid % ActiveTableSize

\* no ACS record
NoRecord == [ack |-> FALSE, cid |-> 1, fills |-> <<>>]

\* The statistics counters are only ever incremented by the engine and never
\* read back by it, so each call is modelled from a zero base: after a call,
\* stats holds what the call added to ch->stats.
ZeroStats ==
    [lost |-> 0, expired |-> 0, acknowledged |-> 0, transmitted |-> 0,
     retransmitted |-> 0, generated |-> 0, received |-> 0, active |-> 0]

(* --------------------------- call context ----------------------------- *)
\* The channel as one call sees it, with the call's locals: data, sid, ati,
\* newcid, status, flags; calls and path record what the call did.
Call(op) ==
    [op |-> op,
     active_table |-> active_table,
     oldest |-> oldest_active_cid,
     current |-> current_active_cid,
     stats |-> ZeroStats,
     store |-> store,
     issued |-> issued,
     status |-> "SUCCESS",
     flags |-> {},
     data |-> "NULL",
     sid |-> BP_SID_VACANT,
     ati |-> -1,
     newcid |-> TRUE,
     calls |-> <<>>,
     path |-> <<>>,
     emitted |-> BP_SID_VACANT,
     cid |-> 0,
     signal |-> FALSE,
     ack_count |-> 0]

Outcome(c) ==
    [op |-> c.op, status |-> c.status, flags |-> c.flags, calls |-> c.calls,
     path |-> c.path, emitted |-> c.emitted, cid |-> c.cid, newcid |-> c.newcid,
     signal |-> c.signal]

Commit(c) ==
    /\ active_table' = c.active_table
    /\ oldest_active_cid' = c.oldest
    /\ current_active_cid' = c.current
    /\ stats' = c.stats
    /\ store' = c.store
    /\ issued' = c.issued
    /\ last' = Outcome(c)
    /\ UNCHANGED components

(* ------------------------- storage service ---------------------------- *)
\* relinquish(handle, sid): releases the retained copy; fails when the
\* service holds nothing under sid.
RelinquishOk(c, sid) == sid \in c.store.held

Relinquish(c, sid) ==
    [c EXCEPT !.store.held = @ \ {sid},
              !.calls = Append(@, <<"relinquish", sid, RelinquishOk(c, sid)>>)]

\* relinquish on the custody (DACS) store of the DACS bundle just dequeued
RelinquishDacs(c) ==
    [c EXCEPT !.calls = Append(@, <<"relinquish_dacs", 0, TRUE>>)]

\* retrieve(handle, &data, NULL, sid, BP_CHECK): succeeds for a retained sid.
RetrieveOk(c, sid) == sid \in c.store.held

\* data->exprtime != 0 && sysnow >= data->exprtime
Expired(c, sid, now) ==
    c.store.data[sid].exprtime # 0 /\ now >= c.store.data[sid].exprtime

(* ----------------------------- bplib_open ----------------------------- *)
NoCall == [op |-> "idle", status |-> "SUCCESS", flags |-> {}, calls |-> <<>>,
           path |-> <<>>, emitted |-> BP_SID_VACANT, cid |-> 0, newcid |-> TRUE,
           signal |-> FALSE]

v6_build(attr) ==
    [prebuilt |-> TRUE,
     request_custody |-> attr.request_custody,
     lifetime |-> attr.lifetime]

\* the channel bplib_open returns for the attributes it was given
ChannelCreated ==
    /\ bundle = v6_build(attributes)
    /\ active_table = [i \in Slots |-> [sid |-> BP_SID_VACANT, retx |-> 0]]
    /\ oldest_active_cid = 1
    /\ current_active_cid = 1
    /\ stats = ZeroStats
    /\ store = [queue |-> <<>>, held |-> {}, next |-> 1,
                data |-> [i \in Sids |-> [exprtime |-> 0, cteb |-> FALSE, cid |-> 0]]]
    /\ sysnow = 0
    /\ issued = <<>>
    /\ last = NoCall

bplib_open ==
    /\ attributes \in [lifetime : {0, LifetimeSecs},
                       request_custody : BOOLEAN,
                       timeout : {0, TimeoutSecs},
                       wrap_response : WrapResponses,
                       cid_reuse : BOOLEAN]
    /\ ChannelCreated

\* no call is waiting for its result to be taken
Idle == last.op = "idle"

(* ----------------------------- bplib_load ----------------------------- *)
\* Try to Send DACS Bundle: custody_send stores any DACS being accumulated,
\* then the custody store is asked for a stored DACS; dacs tells whether it
\* holds one.
LoadDacs(c, dacs) ==
    IF dacs
    THEN [c EXCEPT !.data = "DACS",
                   !.calls = Append(@, <<"dequeue_dacs", 0, TRUE>>),
                   !.flags = @ \cup {"ROUTENEEDED"},
                   !.path = Append(@, "dacs")]
    ELSE c

\* variant of WrapCheck whose DROP branch does not advance oldest_active_cid
WrapCheck_dropstays(c) ==
    LET ati == ATI(c.current)
        sid == c.active_table[ati].sid
        c0 == [c EXCEPT !.ati = ati, !.sid = sid]
    IN
    IF sid = BP_SID_VACANT THEN [c0 EXCEPT !.path = Append(@, "room")]
    ELSE
      LET c1 == [c0 EXCEPT !.flags = @ \cup {"ACTIVETABLEWRAP"}] IN
      IF attributes.wrap_response = "RESEND" THEN
          LET c2 == [c1 EXCEPT !.oldest = @ + 1] IN
          IF ~RetrieveOk(c2, sid)
          THEN [Relinquish(c2, sid) EXCEPT
                   !.active_table[ati].sid = BP_SID_VACANT,
                   !.flags = @ \cup {"STOREFAILURE"},
                   !.stats.lost = @ + 1,
                   !.path = Append(@, "wrap_resend_failed")]
          ELSE [c2 EXCEPT !.data = "BUNDLE",
                          !.stats.retransmitted = @ + 1,
                          !.path = Append(@, "wrap_resend")]
      ELSE IF attributes.wrap_response = "BLOCK" THEN
          [c1 EXCEPT !.status = "OVERFLOW", !.path = Append(@, "wrap_block")]
      ELSE
          [Relinquish(c1, sid) EXCEPT
              !.active_table[ati].sid = BP_SID_VACANT,
              !.stats.lost = @ + 1,
              !.path = Append(@, "wrap_drop")]

\* Check Active Table Has Room: the wrap check at current_active_cid
WrapCheck(c) ==
    LET ati == ATI(c.current)
        sid == c.active_table[ati].sid
        c0 == [c EXCEPT !.ati = ati, !.sid = sid]
    IN
    IF sid = BP_SID_VACANT THEN [c0 EXCEPT !.path = Append(@, "room")]
    ELSE
      LET c1 == [c0 EXCEPT !.flags = @ \cup {"ACTIVETABLEWRAP"}] IN
      IF attributes.wrap_response = "RESEND" THEN
          LET c2 == [c1 EXCEPT !.oldest = @ + 1] IN
          IF ~RetrieveOk(c2, sid)
          THEN [Relinquish(c2, sid) EXCEPT
                   !.active_table[ati].sid = BP_SID_VACANT,
                   !.flags = @ \cup {"STOREFAILURE"},
                   !.stats.lost = @ + 1,
                   !.path = Append(@, "wrap_resend_failed")]
          ELSE [c2 EXCEPT !.data = "BUNDLE",
                          !.stats.retransmitted = @ + 1,
                          !.path = Append(@, "wrap_resend")]
      ELSE IF attributes.wrap_response = "BLOCK" THEN
          [c1 EXCEPT !.status = "OVERFLOW", !.path = Append(@, "wrap_block")]
      ELSE
          [Relinquish([c1 EXCEPT !.oldest = @ + 1], sid) EXCEPT
              !.active_table[ati].sid = BP_SID_VACANT,
              !.stats.lost = @ + 1,
              !.path = Append(@, "wrap_drop")]

\* variant of ScanActiveTable that leaves the loop after an expired bundle
\* instead of going on to the next CID
RECURSIVE ScanActiveTable_stops(_, _)
ScanActiveTable_stops(c, now) ==
    IF ~(c.data = "NULL" /\ c.oldest # c.current) THEN c
    ELSE
      LET ati == ATI(c.oldest)
          sid == c.active_table[ati].sid
          c0 == [c EXCEPT !.ati = ati, !.sid = sid]
      IN
      IF sid = BP_SID_VACANT THEN
          ScanActiveTable_stops([c0 EXCEPT !.oldest = @ + 1,
                                     !.path = Append(@, "vacant")], now)
      ELSE IF RetrieveOk(c0, sid) THEN
          IF Expired(c0, sid, now) THEN
              [Relinquish(c0, sid) EXCEPT
                  !.active_table[ati].sid = BP_SID_VACANT,
                  !.oldest = @ + 1,
                  !.stats.expired = @ + 1,
                  !.path = Append(@, "expired")]
          ELSE IF attributes.timeout # 0
                  /\ now >= c0.active_table[ati].retx + attributes.timeout THEN
              IF attributes.cid_reuse
              THEN [c0 EXCEPT !.data = "BUNDLE",
                              !.oldest = @ + 1,
                              !.stats.retransmitted = @ + 1,
                              !.newcid = FALSE,
                              !.path = Append(@, "timeout_reuse")]
              ELSE [c0 EXCEPT !.data = "BUNDLE",
                              !.oldest = @ + 1,
                              !.stats.retransmitted = @ + 1,
                              !.active_table[ati].sid = BP_SID_VACANT,
                              !.path = Append(@, "timeout_newcid")]
          ELSE WrapCheck(c0)
      ELSE
          ScanActiveTable_stops(
              [Relinquish(c0, sid) EXCEPT
                  !.active_table[ati].sid = BP_SID_VACANT,
                  !.flags = @ \cup {"STOREFAILURE"},
                  !.stats.lost = @ + 1,
                  !.path = Append(@, "retrieve_failed")], now)

\* Try to Send Timed-out Bundle: the scan loop over the active table
RECURSIVE ScanActiveTable(_, _)
ScanActiveTable(c, now) ==
    IF ~(c.data = "NULL" /\ c.oldest # c.current) THEN c
    ELSE
      LET ati == ATI(c.oldest)
          sid == c.active_table[ati].sid
          c0 == [c EXCEPT !.ati = ati, !.sid = sid]
      IN
      IF sid = BP_SID_VACANT THEN
          ScanActiveTable([c0 EXCEPT !.oldest = @ + 1,
                                     !.path = Append(@, "vacant")], now)
      ELSE IF RetrieveOk(c0, sid) THEN
          IF Expired(c0, sid, now) THEN
              ScanActiveTable(
                  [Relinquish(c0, sid) EXCEPT
                      !.active_table[ati].sid = BP_SID_VACANT,
                      !.oldest = @ + 1,
                      !.stats.expired = @ + 1,
                      !.path = Append(@, "expired")], now)
          ELSE IF attributes.timeout # 0
                  /\ now >= c0.active_table[ati].retx + attributes.timeout THEN
              IF attributes.cid_reuse
              THEN [c0 EXCEPT !.data = "BUNDLE",
                              !.oldest = @ + 1,
                              !.stats.retransmitted = @ + 1,
                              !.newcid = FALSE,
                              !.path = Append(@, "timeout_reuse")]
              ELSE [c0 EXCEPT !.data = "BUNDLE",
                              !.oldest = @ + 1,
                              !.stats.retransmitted = @ + 1,
                              !.active_table[ati].sid = BP_SID_VACANT,
                              !.path = Append(@, "timeout_newcid")]
          ELSE WrapCheck(c0)
      ELSE
          ScanActiveTable(
              [Relinquish(c0, sid) EXCEPT
                  !.active_table[ati].sid = BP_SID_VACANT,
                  !.flags = @ \cup {"STOREFAILURE"},
                  !.stats.lost = @ + 1,
                  !.path = Append(@, "retrieve_failed")], now)

\* variant of DequeueStored that relinquishes an expired bundle without
\* counting it
RECURSIVE DequeueStored_uncounted(_, _, _)
DequeueStored_uncounted(c, now, deq_ok) ==
    IF c.data # "NULL" THEN c
    ELSE IF deq_ok = 0 THEN
        [c EXCEPT !.status = "FAILEDSTORE", !.flags = @ \cup {"STOREFAILURE"}]
    ELSE IF c.store.queue = <<>> THEN
        [c EXCEPT !.status = "TIMEOUT"]
    ELSE
      LET sid == Head(c.store.queue)
          c0 == [c EXCEPT !.store.queue = Tail(@),
                          !.store.held = @ \cup {sid},
                          !.sid = sid,
                          !.calls = Append(@, <<"dequeue", sid, TRUE>>)]
      IN
      IF Expired(c0, sid, now)
      THEN DequeueStored_uncounted([Relinquish(c0, sid) EXCEPT
                                       !.sid = BP_SID_VACANT], now, deq_ok - 1)
      ELSE [c0 EXCEPT !.data = "BUNDLE"]

\* Try to Send Stored Bundle: dequeue from the bundle store until a live
\* bundle, a timeout or a store failure; deq_ok is the number of dequeue
\* calls the store serves before it fails.
RECURSIVE DequeueStored(_, _, _)
DequeueStored(c, now, deq_ok) ==
    IF c.data # "NULL" THEN c
    ELSE IF deq_ok = 0 THEN
        [c EXCEPT !.status = "FAILEDSTORE", !.flags = @ \cup {"STOREFAILURE"}]
    ELSE IF c.store.queue = <<>> THEN
        [c EXCEPT !.status = "TIMEOUT"]
    ELSE
      LET sid == Head(c.store.queue)
          c0 == [c EXCEPT !.store.queue = Tail(@),
                          !.store.held = @ \cup {sid},
                          !.sid = sid,
                          !.calls = Append(@, <<"dequeue", sid, TRUE>>)]
      IN
      IF Expired(c0, sid, now)
      THEN DequeueStored([Relinquish(c0, sid) EXCEPT
                             !.stats.expired = @ + 1,
                             !.sid = BP_SID_VACANT], now, deq_ok - 1)
      ELSE [c0 EXCEPT !.data = "BUNDLE"]

\* data->cteboffset != 0: the selected bundle carries a CTEB
HasCteb(c) == c.data = "BUNDLE" /\ c.store.data[c.sid].cteb

\* variant of AssignCustody that stamps the bundle and fills the slot but
\* does not advance current_active_cid
AssignCustody_samecid(c, now) ==
    LET c0 == IF c.newcid
              THEN [c EXCEPT !.ati = ATI(c.current),
                             !.active_table[ATI(c.current)].sid = c.sid,
                             !.store.data[c.sid].cid = c.current,
                             !.issued = Append(@, c.current)]
              ELSE c
    IN [c0 EXCEPT !.active_table[c0.ati].retx = now]

\* Assign Custody ID and Active Table Entry, Update Retransmit Time
AssignCustody(c, now) ==
    LET c0 == IF c.newcid
              THEN [c EXCEPT !.ati = ATI(c.current),
                             !.active_table[ATI(c.current)].sid = c.sid,
                             !.store.data[c.sid].cid = c.current,
                             !.issued = Append(@, c.current),
                             !.current = @ + 1]
              ELSE c
    IN [c0 EXCEPT !.active_table[c0.ati].retx = now]

ReleaseSelected(c) ==
    IF c.data = "DACS" THEN RelinquishDacs(c) ELSE Relinquish(c, c.sid)

\* variant of SendBundle that assigns a new CID whatever newcid says
SendBundle_alwaysnew(c, now, buf) ==
    IF c.data = "NULL" THEN c
    ELSE IF buf = "toolarge" THEN
        [ReleaseSelected(c) EXCEPT !.status = "BUNDLETOOLARGE", !.stats.lost = @ + 1]
    ELSE IF buf = "nomem" THEN
        [ReleaseSelected(c) EXCEPT !.status = "FAILEDMEM", !.stats.lost = @ + 1]
    ELSE
      LET c1 == IF HasCteb(c) THEN AssignCustody([c EXCEPT !.newcid = TRUE], now) ELSE c
          c2 == [c1 EXCEPT !.status = "SIZE",
                           !.stats.transmitted = @ + 1,
                           !.emitted = IF c.data = "BUNDLE" THEN c.sid ELSE BP_SID_VACANT,
                           !.cid = IF c.data = "BUNDLE"
                                   THEN c1.store.data[c.sid].cid ELSE 0]
      IN IF HasCteb(c) THEN c2 ELSE ReleaseSelected(c2)

\* variant of SendBundle that gives every bundle it emits a custody ID and an
\* active-table entry, whether or not the bundle carries a CTEB
SendBundle_retains(c, now, buf) ==
    IF c.data = "NULL" THEN c
    ELSE IF buf = "toolarge" THEN
        [ReleaseSelected(c) EXCEPT !.status = "BUNDLETOOLARGE", !.stats.lost = @ + 1]
    ELSE IF buf = "nomem" THEN
        [ReleaseSelected(c) EXCEPT !.status = "FAILEDMEM", !.stats.lost = @ + 1]
    ELSE
      LET c1 == IF c.data = "BUNDLE" THEN AssignCustody(c, now) ELSE c
          c2 == [c1 EXCEPT !.status = "SIZE",
                           !.stats.transmitted = @ + 1,
                           !.emitted = IF c.data = "BUNDLE" THEN c.sid ELSE BP_SID_VACANT,
                           !.cid = IF c.data = "BUNDLE"
                                   THEN c1.store.data[c.sid].cid ELSE 0]
      IN IF HasCteb(c) THEN c2 ELSE ReleaseSelected(c2)

\* Send Bundle if Ready to Send; buf is the caller's buffer: "ok" (large
\* enough, or allocated by the call), "toolarge", or "nomem" (malloc failed)
SendBundle(c, now, buf) ==
    IF c.data = "NULL" THEN c
    ELSE IF buf = "toolarge" THEN
        [ReleaseSelected(c) EXCEPT !.status = "BUNDLETOOLARGE", !.stats.lost = @ + 1]
    ELSE IF buf = "nomem" THEN
        [ReleaseSelected(c) EXCEPT !.status = "FAILEDMEM", !.stats.lost = @ + 1]
    ELSE
      LET c1 == IF HasCteb(c) THEN AssignCustody(c, now) ELSE c
          c2 == [c1 EXCEPT !.status = "SIZE",
                           !.stats.transmitted = @ + 1,
                           !.emitted = IF c.data = "BUNDLE" THEN c.sid ELSE BP_SID_VACANT,
                           !.cid = IF c.data = "BUNDLE"
                                   THEN c1.store.data[c.sid].cid ELSE 0]
      IN IF HasCteb(c) THEN c2 ELSE ReleaseSelected(c2)

\* variant of LoadActive whose scan compares against the previous second
\* (sysnow > retx + timeout instead of >=)
LoadActive_late(c, now) ==
    IF c.data = "NULL" THEN ScanActiveTable(c, now - 1) ELSE c

LoadActive(c, now) ==
    IF c.data = "NULL" THEN ScanActiveTable(c, now) ELSE c

\* variant of Load that scans the active table before it asks the custody
\* store for a DACS
Load_scanfirst(c, now, dacs, deq_ok, buf) ==
    SendBundle(DequeueStored(LoadDacs(LoadActive(c, now), dacs), now, deq_ok), now, buf)

Load(c, now, dacs, deq_ok, buf) ==
    SendBundle(DequeueStored(LoadActive(LoadDacs(c, dacs), now), now, deq_ok), now, buf)

\* the environment of one call: whether the custody store holds a DACS, how
\* many dequeues the bundle store serves, and the caller's buffer
Buffers == {"ok", "toolarge", "nomem"}
LoadInputs ==
    [dacs : {TRUE}, deq_ok : {MaxBundles + 1}, buf : Buffers]
    \cup [dacs : {FALSE}, deq_ok : {0, 1, MaxBundles + 1}, buf : Buffers]

\* a call of load on a channel that has issued fewer than maxcid custody IDs
LoadCall(maxcid) ==
    \E in \in LoadInputs :
        /\ Idle
        /\ current_active_cid < maxcid
        /\ Commit(Load(Call("load"), sysnow, in.dacs, in.deq_ok, in.buf))
        /\ UNCHANGED <<attributes, bundle, sysnow>>

bplib_load == LoadCall(MaxCid)

\* a call of load when the custody store holds no DACS, the bundle store
\* serves every dequeue and the caller's buffer takes the bundle
bplib_load_ready ==
    \E in \in {x \in LoadInputs : ~x.dacs /\ x.deq_ok = MaxBundles + 1 /\ x.buf = "ok"} :
        /\ Idle
        /\ current_active_cid < MaxCid
        /\ \E c \in {Load(Call("load"), sysnow, in.dacs, in.deq_ok, in.buf)} : Commit(c)
        /\ UNCHANGED <<attributes, bundle, sysnow>>

bplib_load_on == LoadCall(MaxScanCid)

(* ---------------------------- bplib_store ---------------------------- *)
\* bundle_send: rebuild the template when it is not prebuilt, then v6_write
\* stores the bundle (enq_ok: the store accepted it).
TemplateSent(b, attr) == IF b.prebuilt = FALSE THEN v6_build(attr) ELSE b
bundle_send_template == TemplateSent(bundle, attributes)

bplib_store ==
    \E enq_ok \in BOOLEAN :
        LET tmpl == bundle_send_template
            sid == store.next
            c == Call("store")
        IN
        /\ Idle
        /\ store.next <= MaxBundles
        /\ bundle' = tmpl
        /\ IF enq_ok
           THEN Commit([c EXCEPT
                    !.store.queue = Append(@, sid),
                    !.store.next = @ + 1,
                    !.store.data[sid] =
                        [exprtime |-> IF tmpl.lifetime # 0 THEN sysnow + tmpl.lifetime ELSE 0,
                         cteb |-> tmpl.request_custody,
                         cid |-> 0],
                    !.stats.generated = @ + 1])
           ELSE Commit([c EXCEPT !.status = "FAILEDSTORE"])
        /\ UNCHANGED <<attributes, sysnow>>

(* --------------------------- bplib_process ---------------------------- *)
\* acknowledge(parm, cid): the status it returns
acknowledge_status(c, cid) ==
    LET sid == c.active_table[ATI(cid)].sid IN
    IF sid # BP_SID_VACANT
    THEN (IF RelinquishOk(c, sid) THEN "SUCCESS" ELSE "FAILEDSTORE")
    ELSE "FAILEDRESPONSE"

\* variant of acknowledge that relinquishes the bundle and keeps the slot
acknowledge_keepslot(c, cid) ==
    LET ati == ATI(cid)
        sid == c.active_table[ati].sid
    IN
    IF sid # BP_SID_VACANT THEN Relinquish(c, sid) ELSE c

\* acknowledge(parm, cid): its effect on the channel
acknowledge(c, cid) ==
    LET ati == ATI(cid)
        sid == c.active_table[ati].sid
    IN
    IF sid # BP_SID_VACANT
    THEN [Relinquish(c, sid) EXCEPT !.active_table[ati].sid = BP_SID_VACANT]
    ELSE c

\* for(i = 0; i < fill.value; i++) if(ack(ack_parm, cid.value + i) == BP_SUCCESS) ack_count++
RECURSIVE AckRun(_, _, _, _)
AckRun(c, cid, i, fill) ==
    IF i >= fill THEN c
    ELSE AckRun([acknowledge(c, cid + i) EXCEPT
                    !.ack_count = IF acknowledge_status(c, cid + i) = "SUCCESS"
                                  THEN @ + 1 ELSE @],
                cid, i + 1, fill)

\* dacs_read: Process Fills, alternating runs and gaps from the first CID
RECURSIVE ProcessFills(_, _, _, _, _)
ProcessFills(c, fills, cid, cidin, ack_success) ==
    IF fills = <<>> THEN c
    ELSE
      LET fill == Head(fills) IN
      IF cidin /\ ack_success
      THEN ProcessFills(AckRun(c, cid, 0, fill), Tail(fills), cid + fill, FALSE, ack_success)
      ELSE ProcessFills(c, Tail(fills), cid + fill, TRUE, ack_success)

dacs_read(c, rec) == ProcessFills(c, rec.fills, rec.cid, TRUE, rec.ack)

\* custody_acknowledge hands the ACS record of the bundle to dacs_read
custody_acknowledge(c, rec) == dacs_read(c, rec)

\* custody_receive: the CID of the received bundle joins the custody engine's
\* accumulated set; the active table is not involved.
custody_receive(c) == [c EXCEPT !.path = Append(@, "custody_receive")]

\* variant of ProcessDacs that returns the disposition of bundle_receive
ProcessDacs_rawstatus(c, rec) ==
    LET c1 == custody_acknowledge([c EXCEPT !.ack_count = 0, !.path = Append(@, "lock")], rec) IN
    IF c1.ack_count > 0
    THEN [c1 EXCEPT !.stats.acknowledged = @ + c1.ack_count,
                    !.signal = TRUE,
                    !.path = @ \o <<"signal", "unlock">>]
    ELSE [c1 EXCEPT !.status = "TIMEOUT", !.path = Append(@, "unlock")]

\* variant of ProcessDacs that signals the active table after it has
\* released the lock
ProcessDacs_signallate(c, rec) ==
    LET c1 == custody_acknowledge([c EXCEPT !.ack_count = 0, !.path = Append(@, "lock")], rec) IN
    IF c1.ack_count > 0
    THEN [c1 EXCEPT !.status = "SUCCESS",
                    !.stats.acknowledged = @ + c1.ack_count,
                    !.signal = TRUE,
                    !.path = @ \o <<"unlock", "signal">>]
    ELSE [c1 EXCEPT !.status = "TIMEOUT", !.path = Append(@, "unlock")]

\* Process Aggregate Custody Signal: bplib_os_lock, custody_acknowledge,
\* bplib_os_signal when the count is positive, bplib_os_unlock; path keeps
\* the order of the three
ProcessDacs(c, rec) ==
    LET c1 == custody_acknowledge([c EXCEPT !.ack_count = 0, !.path = Append(@, "lock")], rec) IN
    IF c1.ack_count > 0
    THEN [c1 EXCEPT !.status = "SUCCESS",
                    !.stats.acknowledged = @ + c1.ack_count,
                    !.signal = TRUE,
                    !.path = @ \o <<"signal", "unlock">>]
    ELSE [c1 EXCEPT !.status = "TIMEOUT",     \* the count 0 is returned as is
                    !.path = Append(@, "unlock")]

Process(c, rx, rec) ==
    LET c0 == [c EXCEPT !.stats.received = @ + 1, !.status = rx] IN
    IF rx = "EXPIRED" THEN [c0 EXCEPT !.stats.expired = @ + 1]
    ELSE IF rx = "PENDINGACKNOWLEDGMENT" THEN ProcessDacs(c0, rec)
    ELSE IF rx = "PENDINGCUSTODYTRANSFER" THEN [custody_receive(c0) EXCEPT !.status = "SUCCESS"]
    ELSE c0

\* ACS records handed to bplib_process
\* one run, or a run, a gap and a run
FillSeqs == {<<run>> : run \in 1 .. MaxFill} \cup {<<1, gap, 1>> : gap \in 1 .. MaxGap}
DacsRecords ==
    [ack : {TRUE}, cid : 1 .. MaxAckCid, fills : FillSeqs]
        \cup [ack : {FALSE}, cid : {1}, fills : {<<1>>}]

\* bundle_receive: the dispositions it can return for a received bundle
ReceiveStatus == {"EXPIRED", "PENDINGACKNOWLEDGMENT", "PENDINGCUSTODYTRANSFER",
                  "SUCCESS", "BUNDLEPARSEERR"}

bplib_process ==
    \E rx \in ReceiveStatus :
      \E rec \in (IF rx = "PENDINGACKNOWLEDGMENT" THEN DacsRecords ELSE {NoRecord}) :
        /\ Idle
        /\ Commit(Process(Call("process"), rx, rec))
        /\ UNCHANGED <<attributes, bundle, sysnow>>

(* ---------------------------- bplib_flush ----------------------------- *)
\* Relinquish All Active Bundles
RECURSIVE FlushActive(_)
FlushActive(c) ==
    IF c.oldest = c.current THEN c
    ELSE
      LET ati == ATI(c.oldest)
          sid == c.active_table[ati].sid
          c1 == IF sid # BP_SID_VACANT
                THEN [Relinquish(c, sid) EXCEPT
                         !.active_table[ati].sid = BP_SID_VACANT,
                         !.stats.lost = @ + 1]
                ELSE c
      IN FlushActive([c1 EXCEPT !.oldest = @ + 1])

bplib_flush ==
    /\ Idle
    /\ Commit(FlushActive(Call("flush")))
    /\ UNCHANGED <<attributes, bundle, sysnow>>

(* -------------------------- bplib_latchstats -------------------------- *)
\* variant of bplib_latchstats that counts the occupied slots
bplib_latchstats_slots ==
    /\ Idle
    /\ Commit([Call("latchstats") EXCEPT
                  !.stats.active =
                      Cardinality({i \in Slots : active_table[i].sid # BP_SID_VACANT})])
    /\ UNCHANGED <<attributes, bundle, sysnow>>

bplib_latchstats ==
    /\ Idle
    /\ Commit([Call("latchstats") EXCEPT
                  !.stats.active = current_active_cid - oldest_active_cid])
    /\ UNCHANGED <<attributes, bundle, sysnow>>

(* ---------------------------- bplib_config ---------------------------- *)
BoolOptions ==
    {"request_custody", "admin_record", "integrity_check", "allow_fragmentation", "cid_reuse"}
IntOptions == {"lifetime", "cipher_suite", "timeout", "max_length", "dacs_rate"}
Options == BoolOptions \cup IntOptions \cup {"wrap_response"}

\* the values a caller may pass for an option (valid and invalid ones)
OptionValues(opt) ==
    IF opt \in BoolOptions THEN {0, 1, 2}
    ELSE IF opt = "lifetime" THEN {0, LifetimeSecs}
    ELSE IF opt = "timeout" THEN {0, TimeoutSecs}
    ELSE IF opt = "wrap_response" THEN WrapResponses \cup {"OTHER"}
    ELSE {0}

\* a validation that checks the length of the value only when it is written
ConfigStatus_written(mode, opt, val, len_ok) ==
    IF opt \notin Options THEN "PARMERR"
    ELSE IF mode = "WRITE" /\ ~len_ok THEN "PARMERR"
    ELSE IF mode = "WRITE" /\ opt \in BoolOptions /\ val \notin {0, 1} THEN "PARMERR"
    ELSE IF mode = "WRITE" /\ opt = "wrap_response" /\ val \notin WrapResponses THEN "PARMERR"
    ELSE "SUCCESS"

ConfigStatus(mode, opt, val, len_ok) ==
    IF opt \notin Options THEN "PARMERR"
    ELSE IF ~len_ok THEN "PARMERR"
    ELSE IF mode = "WRITE" /\ opt \in BoolOptions /\ val \notin {0, 1} THEN "PARMERR"
    ELSE IF mode = "WRITE" /\ opt = "wrap_response" /\ val \notin WrapResponses THEN "PARMERR"
    ELSE "SUCCESS"

ConfigValue(opt, val) == IF opt \in BoolOptions THEN val = 1 ELSE val

\* Re-initialize Bundles: the prebuilt flag after a successful set
ConfigPrebuilt == TRUE

\* the calls made on a channel in service: every value of timeout, cid_reuse
\* and wrap_response written with the right length, each of them read, an
\* unknown option, and one call of a wrong length
ConfigCalls ==
    {[mode |-> "WRITE", opt |-> o, val |-> v, len_ok |-> TRUE] :
        o \in {"timeout"}, v \in OptionValues("timeout")}
    \cup {[mode |-> "WRITE", opt |-> o, val |-> v, len_ok |-> TRUE] :
        o \in {"cid_reuse"}, v \in OptionValues("cid_reuse")}
    \cup {[mode |-> "WRITE", opt |-> o, val |-> v, len_ok |-> TRUE] :
        o \in {"wrap_response"}, v \in OptionValues("wrap_response")}
    \cup {[mode |-> "WRITE", opt |-> "unknown", val |-> 0, len_ok |-> TRUE]}
    \cup {[mode |-> "READ", opt |-> o, val |-> 0, len_ok |-> TRUE] :
        o \in {"timeout", "cid_reuse", "wrap_response", "unknown"}}
    \cup {[mode |-> "WRITE", opt |-> "timeout", val |-> 0, len_ok |-> FALSE]}

\* every call: each mode, each option and an unknown one, each value, a
\* right and a wrong length
AllConfigCalls ==
    UNION {[mode : {"READ", "WRITE"}, opt : {o}, val : OptionValues(o), len_ok : BOOLEAN] :
              o \in Options \cup {"unknown"}}

\* what one call of bplib_config returns and leaves in the channel
ConfigResult(call) ==
    LET status == ConfigStatus(call.mode, call.opt, call.val, call.len_ok)
        setopt == call.mode = "WRITE"
    IN [status |-> status,
        attributes |-> IF status = "SUCCESS" /\ setopt
                       THEN [attributes EXCEPT ![call.opt] = ConfigValue(call.opt, call.val)]
                       ELSE attributes,
        bundle |-> IF status = "SUCCESS" /\ setopt
                   THEN [bundle EXCEPT !.prebuilt = ConfigPrebuilt]
                   ELSE bundle]

Config(calls) ==
    \E call \in calls :
        LET r == ConfigResult(call) IN
        /\ Idle
        /\ attributes' = r.attributes
        /\ bundle' = r.bundle
        /\ last' = [NoCall EXCEPT !.op = "config", !.status = r.status]
        /\ stats' = ZeroStats
        /\ UNCHANGED <<active_table, oldest_active_cid, current_active_cid,
                       store, sysnow, issued, components>>

bplib_config == Config(ConfigCalls)
bplib_config_any == Config(AllConfigCalls)

(* -------------------------- clock and caller -------------------------- *)
Tick ==
    /\ Idle
    /\ sysnow < MaxTime
    /\ sysnow' = sysnow + 1
    /\ UNCHANGED <<attributes, bundle, active_table, oldest_active_cid,
                   current_active_cid, stats, store, issued, last, components>>

\* the single caller takes the result of the call before it makes the next
Return ==
    /\ ~Idle
    /\ last' = NoCall
    /\ stats' = ZeroStats
    /\ UNCHANGED <<attributes, bundle, active_table, oldest_active_cid,
                   current_active_cid, store, sysnow, issued, components>>

(* ------------------- aggregate custody signals ------------------------ *)
\* An ACS record is a function from byte offsets to bytes.
BP_ACS_REC_TYPE_INDEX == 0
BP_ACS_REC_STATUS_INDEX == 1
BP_ACS_REC_TYPE == 64
BP_ACS_ACK_MASK == 1

RECURSIVE Pow128(_)
Pow128(n) == IF n = 0 THEN 1 ELSE 128 * Pow128(n - 1)

\* sdnv_write(block, size, sdnv, &flags) with a fixed width: exactly width
\* bytes from sdnv.index (fewer, and INCOMPLETE, when the buffer ends), 7 bits
\* each, most significant first, the continuation bit set on all but the
\* last; OVERFLOW when significant bits remain; returns the index after them.
sdnv_write(w, size, value, width) ==
    LET fits == w.index + width <= size
        n == IF fits THEN width ELSE size - w.index
        endindex == w.index + n - 1
        byte(i) == IF i = endindex
                   THEN (value \div Pow128(endindex - i)) % 128
                   ELSE 128 + ((value \div Pow128(endindex - i)) % 128)
    IN [rec |-> [i \in DOMAIN w.rec |->
                    IF i >= w.index /\ i <= endindex THEN byte(i) ELSE w.rec[i]],
        index |-> endindex + 1,
        flags |-> w.flags \cup (IF fits THEN {} ELSE {"SDNVINCOMPLETE"})
                          \cup (IF value \div Pow128(n) > 0 THEN {"SDNVOVERFLOW"} ELSE {})]

\* sdnv_read(block, size, &sdnv, &flags) without a fixed width: the bytes
\* from index up to the first one whose high bit is clear, 7 bits each, most
\* significant first; INCOMPLETE when the buffer ends first; returns the
\* index after them.
RECURSIVE sdnv_read(_, _, _, _)
sdnv_read(rec, size, i, value) ==
    IF i >= size THEN [value |-> value, index |-> i, flags |-> {"SDNVINCOMPLETE"}]
    ELSE IF rec[i] < 128
         THEN [value |-> value * 128 + rec[i], index |-> i + 1, flags |-> {}]
         ELSE sdnv_read(rec, size, i + 1, value * 128 + (rec[i] % 128))

\* the custody engine's interval tree, read in order: the maximal runs of the
\* accumulated CIDs as ranges {value, offset}, offset = run length - 1
Lowest(S) == CHOOSE m \in S : \A x \in S : m <= x

RECURSIVE RunEnd(_, _)
RunEnd(S, v) == IF (v + 1) \in S THEN RunEnd(S, v + 1) ELSE v

RECURSIVE TreeRanges(_)
TreeRanges(S) ==
    IF S = {} THEN <<>>
    ELSE LET v == Lowest(S)
             e == RunEnd(S, v)
         IN <<[value |-> v, offset |-> e - v]>> \o TreeRanges({x \in S : x > e})

\* variant of WriteFills that goes on until the tree is empty, whatever the
\* fill limit
RECURSIVE WriteFills_nolimit(_, _, _, _, _, _)
WriteFills_nolimit(w, size, ranges, prev_range, count_fills, max_fills_per_dacs) ==
    IF ranges = <<>>
    THEN [w |-> w, ranges |-> ranges]
    ELSE
      LET range == Head(ranges)
          gap == range.value - (prev_range.value + prev_range.offset + 1)
          w1 == sdnv_write(w, size, gap, 2)
          w2 == sdnv_write(w1, size, range.offset + 1, 2)
      IN WriteFills_nolimit(w2, size, Tail(ranges), range, count_fills + 2,
                            max_fills_per_dacs)

\* dacs_write: Traverse tree in order and write out fills to dacs
RECURSIVE WriteFills(_, _, _, _, _, _)
WriteFills(w, size, ranges, prev_range, count_fills, max_fills_per_dacs) ==
    IF ~(count_fills < max_fills_per_dacs /\ ranges # <<>>)
    THEN [w |-> w, ranges |-> ranges]
    ELSE
      LET range == Head(ranges)
          gap == range.value - (prev_range.value + prev_range.offset + 1)
          w1 == sdnv_write(w, size, gap, 2)
          w2 == sdnv_write(w1, size, range.offset + 1, 2)
      IN WriteFills(w2, size, Tail(ranges), range, count_fills + 2, max_fills_per_dacs)

\* variant of dacs_write that writes a range's offset as its run length
dacs_write_offset(rec, size, max_fills_per_dacs, ranges) ==
    LET w0 == [rec |-> [rec EXCEPT ![BP_ACS_REC_TYPE_INDEX] = BP_ACS_REC_TYPE,
                                   ![BP_ACS_REC_STATUS_INDEX] = BP_ACS_ACK_MASK],
               index |-> 2, flags |-> {}]
        range == Head(ranges)
        w1 == sdnv_write(w0, size, range.value, 4)
        w2 == sdnv_write(w1, size, range.offset, 2)
        r == WriteFills(w2, size, Tail(ranges), range, 2, max_fills_per_dacs)
    IN [rec |-> r.w.rec,
        flags |-> r.w.flags,
        status |-> IF r.w.flags # {} THEN "BUNDLEPARSEERR" ELSE "SIZE",
        size |-> r.w.index,
        ranges |-> r.ranges]

\* dacs_write(rec, size, max_fills_per_dacs, tree, iter, sdnvflags); ranges
\* is what rb_tree_get_next will pop from the tree, lowest first
dacs_write(rec, size, max_fills_per_dacs, ranges) ==
    LET w0 == [rec |-> [rec EXCEPT ![BP_ACS_REC_TYPE_INDEX] = BP_ACS_REC_TYPE,
                                   ![BP_ACS_REC_STATUS_INDEX] = BP_ACS_ACK_MASK],
               index |-> 2, flags |-> {}]
        range == Head(ranges)
        w1 == sdnv_write(w0, size, range.value, 4)
        w2 == sdnv_write(w1, size, range.offset + 1, 2)
        r == WriteFills(w2, size, Tail(ranges), range, 2, max_fills_per_dacs)
    IN [rec |-> r.w.rec,
        flags |-> r.w.flags,
        status |-> IF r.w.flags # {} THEN "BUNDLEPARSEERR" ELSE "SIZE",
        size |-> r.w.index,
        ranges |-> r.ranges]

\* dacs_read, Free Bundles: the callback is called for cid + i, i < fill, and
\* its successes are counted; failing is the set of CIDs the callback rejects
RECURSIVE ReadRun(_, _, _, _, _)
ReadRun(r, cid, i, fill, failing) ==
    IF i >= fill THEN r
    ELSE ReadRun([r EXCEPT !.acks = Append(@, cid + i),
                           !.ack_count = IF (cid + i) \in failing THEN @ ELSE @ + 1],
                 cid, i + 1, fill, failing)

\* variant of ReadFills that acknowledges the runs whatever the ack bit of
\* the status byte
RECURSIVE ReadFills_anystatus(_, _, _, _, _, _, _, _)
ReadFills_anystatus(r, rec, rec_size, index, cid, cidin, ack_success, failing) ==
    IF ~(index < rec_size) THEN r
    ELSE
      LET fill == sdnv_read(rec, rec_size, index, 0) IN
      IF fill.flags # {} THEN [r EXCEPT !.status = "BUNDLEPARSEERR", !.flags = fill.flags]
      ELSE IF cidin
      THEN ReadFills_anystatus(ReadRun(r, cid, 0, fill.value, failing), rec, rec_size,
                               fill.index, cid + fill.value, FALSE, ack_success, failing)
      ELSE ReadFills_anystatus(r, rec, rec_size, fill.index, cid + fill.value, TRUE,
                               ack_success, failing)

\* dacs_read, Process Fills
RECURSIVE ReadFills(_, _, _, _, _, _, _, _)
ReadFills(r, rec, rec_size, index, cid, cidin, ack_success, failing) ==
    IF ~(index < rec_size) THEN r
    ELSE
      LET fill == sdnv_read(rec, rec_size, index, 0) IN
      IF fill.flags # {} THEN [r EXCEPT !.status = "BUNDLEPARSEERR", !.flags = fill.flags]
      ELSE IF cidin /\ ack_success
      THEN ReadFills(ReadRun(r, cid, 0, fill.value, failing), rec, rec_size,
                     fill.index, cid + fill.value, FALSE, ack_success, failing)
      ELSE ReadFills(r, rec, rec_size, fill.index, cid + fill.value, TRUE,
                     ack_success, failing)

\* dacs_read(rec, rec_size, ack, ack_parm, sdnvflags) on the bytes of a record
dacs_read_record(rec, rec_size, failing) ==
    LET ack_success == (rec[BP_ACS_REC_STATUS_INDEX] % 2) = BP_ACS_ACK_MASK
        cid == sdnv_read(rec, rec_size, 2, 0)
        r0 == [status |-> "COUNT", flags |-> {}, acks |-> <<>>, ack_count |-> 0]
    IN IF cid.flags # {}
       THEN [r0 EXCEPT !.status = "BUNDLEPARSEERR", !.flags = cid.flags]
       ELSE ReadFills(r0, rec, rec_size, cid.index, cid.value, TRUE, ack_success, failing)

\* the CIDs custody_receive may be handed
RecvCids == (1 .. MaxRecvCid) \cup {FarCid, HugeCid}

NoAcs ==
    [phase |-> "accumulate", cids |-> {}, max_fills |-> 0, written |-> {},
     wstatus |-> "SIZE", rec |-> [i \in 0 .. (DacsRecSize - 1) |-> 0], rec_size |-> 0,
     rec_status |-> 0, failing |-> {}, rstatus |-> "COUNT", acks |-> <<>>,
     ack_count |-> 0]

\* custody_receive: the CID of a received bundle joins the tree
custody_insert ==
    \E cid \in RecvCids :
        /\ acs.phase = "accumulate"
        /\ cid \notin acs.cids
        /\ acs' = [acs EXCEPT !.cids = @ \cup {cid}]
        /\ UNCHANGED besides_acs

\* the values of max_fills_per_dacs a writer is given: the smallest ones, odd
\* and even, and one that holds every range
FillLimits == (1 .. MaxFillsPerDacs) \cup {DacsRecSize}

\* custody_send: the tree is written out as one ACS record; written is the
\* set of CIDs of the ranges popped from the tree
custody_write ==
    \E max_fills \in FillLimits :
        LET ranges == TreeRanges(acs.cids)
            w == dacs_write(acs.rec, DacsRecSize, max_fills, ranges)
            popped == SubSeq(ranges, 1, Len(ranges) - Len(w.ranges))
        IN
        /\ acs.phase = "accumulate"
        /\ acs.cids # {}
        /\ acs' = [acs EXCEPT
                     !.phase = IF w.status = "SIZE" THEN "written" ELSE "failed",
                     !.max_fills = max_fills,
                     !.written = UNION {popped[k].value .. (popped[k].value + popped[k].offset) :
                                           k \in 1 .. Len(popped)},
                     !.wstatus = w.status,
                     !.rec = w.rec,
                     !.rec_size = w.size]
        /\ UNCHANGED besides_acs

\* the record reaches the reader of the peer
custody_read ==
    \E failing \in {{}, {1}, {MaxRecvCid}} :
        LET r == dacs_read_record(acs.rec, acs.rec_size, failing) IN
        /\ acs.phase = "written"
        /\ acs' = [acs EXCEPT !.phase = "read",
                              !.rec_status = acs.rec[BP_ACS_REC_STATUS_INDEX],
                              !.failing = failing,
                              !.rstatus = r.status,
                              !.acks = r.acks,
                              !.ack_count = r.ack_count]
        /\ UNCHANGED besides_acs

\* the status bytes of a record other than the one dacs_write sets
OtherStatus == {0, 2, 3}

\* a record with the same first CID and fills and another status byte
\* reaches the reader
custody_read_status ==
    \E failing \in {{}, {1}, {MaxRecvCid}}, status \in OtherStatus :
        LET rec == [acs.rec EXCEPT ![BP_ACS_REC_STATUS_INDEX] = status]
            r == dacs_read_record(rec, acs.rec_size, failing)
        IN
        /\ acs.phase = "written"
        /\ acs' = [acs EXCEPT !.phase = "readstatus",
                              !.rec_status = status,
                              !.failing = failing,
                              !.rstatus = r.status,
                              !.acks = r.acks,
                              !.ack_count = r.ack_count]
        /\ UNCHANGED besides_acs

\* the next interval of accumulation starts from an empty tree
custody_reset ==
    /\ acs.phase \in {"read", "readstatus", "failed"}
    /\ acs' = NoAcs
    /\ UNCHANGED besides_acs

(* ---------------- uint32_t values of the tree nodes ------------------- *)
\* A uint32_t u is held as u - 2^31, which keeps the order of the values and
\* fits the integers of the checker; Add32 adds a small k with the wrap of
\* the 32-bit word.
Bias32 == 2147483647
U32(n) == (n - Bias32) - 1
TopU32(k) == Bias32 - k
Add32(s, k) ==
    IF k >= 0
    THEN IF s > Bias32 - k THEN (((s - Bias32) + (k - 1)) - Bias32) - 1 ELSE s + k
    ELSE IF s < 0 /\ (s + Bias32) + 1 < -k THEN (((s + Bias32) + 1) + k) + Bias32 + 1
         ELSE s + k

(* ================ the interval red-black tree (bplib_rb_tree.c) ======= *)
\* A tree is a record: node (the preallocated array, indexed from 1), root,
\* free_node_head, free_node_tail, size, max_size, and fault, which is set
\* when the code dereferences a null pointer.
NULL == 0

\* Op applied to the value of v: a step of the code's sequential execution,
\* whose result the following steps read
Bind(v, Op(_)) == CHOOSE r \in {Op(x) : x \in {v}} : TRUE

NodeIds(tree) == 1 .. tree.max_size

Fault(tree) == [tree EXCEPT !.fault = TRUE]

SetField(tree, n, f, v) ==
    Bind(n, LAMBDA p : IF p = NULL THEN Fault(tree) ELSE [tree EXCEPT !.node[p][f] = v])

Field(tree, n, f) == Bind(n, LAMBDA p : IF p = NULL THEN NULL ELSE tree.node[p][f])

pop_free_node(tree) ==
    Bind(tree, LAMBDA t :
        LET free_node == t.free_node_tail IN
        IF free_node # NULL
        THEN LET tail == t.node[free_node].left IN
             [tree |-> [t EXCEPT !.free_node_tail = tail,
                                 !.free_node_head = IF tail = NULL THEN NULL ELSE @,
                                 !.size = @ + 1],
              node |-> free_node]
        ELSE [tree |-> t, node |-> NULL])

push_free_node(tree, n) ==
    Bind(tree, LAMBDA t :
        Bind([SetField(SetField(t, n, "right", t.free_node_head), n, "left", NULL)
                 EXCEPT !.size = @ - 1], LAMBDA t2 :
            IF t2.free_node_head = NULL
            THEN [t2 EXCEPT !.free_node_head = n, !.free_node_tail = n]
            ELSE [SetField(t2, t2.free_node_head, "left", n) EXCEPT !.free_node_head = n]))

set_black(tree, n) == SetField(tree, n, "color", FALSE)
set_red(tree, n) == SetField(tree, n, "color", TRUE)

swap_colors(tree, n1, n2) ==
    Bind(tree, LAMBDA t :
        SetField(SetField(t, n1, "color", t.node[n2].color), n2, "color", t.node[n1].color))

is_black(tree, n) == Bind(n, LAMBDA p : p = NULL \/ ~tree.node[p].color)
is_red(tree, n) == Bind(n, LAMBDA p : p # NULL /\ tree.node[p].color)

get_grandparent(tree, n) ==
    Bind(tree.node[n].parent, LAMBDA parent :
        IF parent = NULL THEN NULL ELSE tree.node[parent].parent)

is_root(tree, n) == tree.node[n].parent = NULL
is_left_child(tree, n) ==
    Bind(tree.node[n].parent, LAMBDA parent : parent # NULL /\ n = tree.node[parent].left)

get_sibling(tree, n) ==
    Bind(tree.node[n].parent, LAMBDA parent :
        IF parent = NULL THEN NULL
        ELSE IF is_left_child(tree, n) THEN tree.node[parent].right
        ELSE tree.node[parent].left)

get_uncle(tree, n) ==
    Bind(tree.node[n].parent, LAMBDA parent :
        IF parent = NULL THEN NULL
        ELSE IF get_grandparent(tree, n) = NULL THEN NULL
        ELSE get_sibling(tree, parent))

has_left_child(tree, n) == tree.node[n].left # NULL
has_right_child(tree, n) == tree.node[n].right # NULL

swap_parents(tree, node_1, node_2) ==
    Bind(SetField(tree, node_2, "parent", tree.node[node_1].parent), LAMBDA t1 :
        Bind(IF is_root(t1, node_1) THEN [t1 EXCEPT !.root = node_2]
             ELSE IF is_left_child(t1, node_1)
                  THEN SetField(t1, t1.node[node_1].parent, "left", node_2)
                  ELSE SetField(t1, t1.node[node_1].parent, "right", node_2), LAMBDA t2 :
            SetField(t2, node_1, "parent", node_2)))

rotate_left(tree, n) ==
    Bind(tree, LAMBDA t : Bind(Field(t, n, "right"), LAMBDA new_parent :
        IF new_parent = NULL THEN Fault(t)
        ELSE Bind(SetField(SetField(t, n, "right", t.node[new_parent].left),
                           new_parent, "left", n), LAMBDA t2 :
                 swap_parents(IF has_right_child(t2, n)
                              THEN SetField(t2, t2.node[n].right, "parent", n)
                              ELSE t2, n, new_parent))))

rotate_right(tree, n) ==
    Bind(tree, LAMBDA t : Bind(Field(t, n, "left"), LAMBDA new_parent :
        IF new_parent = NULL THEN Fault(t)
        ELSE Bind(SetField(SetField(t, n, "left", t.node[new_parent].right),
                           new_parent, "right", n), LAMBDA t2 :
                 swap_parents(IF has_left_child(t2, n)
                              THEN SetField(t2, t2.node[n].left, "parent", n)
                              ELSE t2, n, new_parent))))

populate_rb_node(tree, value, n) ==
    [tree EXCEPT !.node[n] = [@ EXCEPT !.value = value, !.offset = 1, !.parent = NULL,
                                       !.left = NULL, !.right = NULL]]

create_black_node(tree, value) ==
    Bind(pop_free_node(tree), LAMBDA p :
        IF p.node = NULL THEN p
        ELSE [tree |-> set_black(populate_rb_node(p.tree, value, p.node), p.node),
              node |-> p.node])

create_red_node(tree, value) ==
    Bind(pop_free_node(tree), LAMBDA p :
        IF p.node = NULL THEN p
        ELSE [tree |-> set_red(populate_rb_node(p.tree, value, p.node), p.node),
              node |-> p.node])

RECURSIVE Rightmost(_, _)
Rightmost(tree, n) ==
    Bind(n, LAMBDA p : IF has_right_child(tree, p) THEN Rightmost(tree, tree.node[p].right) ELSE p)

RECURSIVE Leftmost(_, _)
Leftmost(tree, n) ==
    Bind(n, LAMBDA p : IF has_left_child(tree, p) THEN Leftmost(tree, tree.node[p].left) ELSE p)

get_left_sucessor(tree, n) ==
    IF ~has_left_child(tree, n) THEN NULL ELSE Rightmost(tree, tree.node[n].left)

get_right_sucessor(tree, n) ==
    IF ~has_right_child(tree, n) THEN NULL ELSE Leftmost(tree, tree.node[n].right)

get_sucessor(tree, n) ==
    Bind(get_left_sucessor(tree, n), LAMBDA sucessor :
        IF sucessor # NULL THEN sucessor ELSE get_right_sucessor(tree, n))

swap_values(tree, n1, n2) ==
    Bind(tree, LAMBDA t :
        SetField(SetField(t, n1, "value", t.node[n2].value), n2, "value", t.node[n1].value))

swap_offsets(tree, n1, n2) ==
    Bind(tree, LAMBDA t :
        SetField(SetField(t, n1, "offset", t.node[n2].offset), n2, "offset", t.node[n1].offset))

replace_node(tree, n, child) ==
    Bind(tree, LAMBDA t : Bind(t.node[n].parent, LAMBDA parent :
        Bind(IF is_left_child(t, n) THEN SetField(t, parent, "left", child)
             ELSE SetField(t, parent, "right", child), LAMBDA t1 :
            IF child # NULL THEN SetField(t1, child, "parent", parent) ELSE t1)))

delete_case_6(tree, n) ==
    Bind(tree, LAMBDA t : Bind(get_sibling(t, n), LAMBDA sibling :
    Bind(t.node[n].parent, LAMBDA parent :
        IF sibling = NULL \/ parent = NULL THEN Fault(t)
        ELSE Bind(set_black(SetField(t, sibling, "color", t.node[parent].color), parent),
                  LAMBDA t1 :
                 IF is_left_child(t1, n)
                 THEN rotate_left(set_black(t1, t1.node[sibling].right), parent)
                 ELSE rotate_right(set_black(t1, t1.node[sibling].left), parent)))))

delete_case_5(tree, n) ==
    Bind(tree, LAMBDA t : Bind(get_sibling(t, n), LAMBDA sibling :
        LET is_left == is_left_child(t, n) IN
        IF sibling = NULL THEN Fault(t)
        ELSE IF is_black(t, sibling)
             THEN IF is_left /\ is_black(t, t.node[sibling].right)
                             /\ is_red(t, t.node[sibling].left)
                  THEN delete_case_6(rotate_right(set_black(set_red(t, sibling),
                                                            t.node[sibling].left), sibling), n)
                  ELSE IF ~is_left /\ is_black(t, t.node[sibling].left)
                                   /\ is_red(t, t.node[sibling].right)
                       THEN delete_case_6(rotate_left(t, sibling), n)
                       ELSE delete_case_6(t, n)
             ELSE delete_case_6(t, n)))

delete_case_4(tree, n) ==
    Bind(tree, LAMBDA t : Bind(get_sibling(t, n), LAMBDA sibling :
    Bind(t.node[n].parent, LAMBDA parent :
        IF sibling = NULL THEN Fault(t)
        ELSE IF /\ is_red(t, parent)
                /\ is_black(t, sibling)
                /\ is_black(t, t.node[sibling].left)
                /\ is_black(t, t.node[sibling].right)
             THEN set_black(set_red(t, sibling), parent)
             ELSE delete_case_5(t, n))))

RECURSIVE delete_case_1(_, _)

delete_case_3(tree, n) ==
    Bind(tree, LAMBDA t : Bind(get_sibling(t, n), LAMBDA sibling :
    Bind(t.node[n].parent, LAMBDA parent :
        IF sibling = NULL THEN Fault(t)
        ELSE IF /\ is_black(t, parent)
                /\ is_black(t, sibling)
                /\ is_black(t, t.node[sibling].left)
                /\ is_black(t, t.node[sibling].right)
             THEN delete_case_1(set_red(t, sibling), parent)
             ELSE delete_case_4(t, n))))

delete_case_2(tree, n) ==
    Bind(tree, LAMBDA t : Bind(get_sibling(t, n), LAMBDA sibling :
    Bind(t.node[n].parent, LAMBDA parent :
        IF is_red(t, sibling)
        THEN Bind(set_black(set_red(t, parent), sibling), LAMBDA t1 :
                 IF is_left_child(t1, n)
                 THEN delete_case_3(rotate_left(t1, parent), n)
                 ELSE delete_case_3(rotate_right(t1, parent), n))
        ELSE delete_case_3(t, n))))

delete_case_1(tree, n) ==
    Bind(tree, LAMBDA t : Bind(n, LAMBDA p :
        IF t.fault \/ is_root(t, p) THEN t ELSE delete_case_2(t, p)))

delete_one_child(tree, n) ==
    Bind(tree, LAMBDA t :
    Bind(IF has_left_child(t, n) THEN t.node[n].left ELSE t.node[n].right, LAMBDA child :
        IF child = NULL
        THEN push_free_node(replace_node(IF is_black(t, n) THEN delete_case_1(t, n) ELSE t,
                                         n, child), n)
        ELSE Bind(replace_node(t, n, child), LAMBDA t1 :
                 push_free_node(IF is_black(t1, n)
                                THEN IF is_red(t1, child) THEN set_black(t1, child)
                                     ELSE delete_case_1(t1, child)
                                ELSE t1, n))))

\* a merge of three ranges that leaves the absorbed node in the tree
delete_node_skipped(tree, n) == tree

delete_node(tree, n) ==
    Bind(tree, LAMBDA t : Bind(n, LAMBDA p : Bind(get_sucessor(t, p), LAMBDA replace :
        IF replace = NULL /\ is_root(t, p)
        THEN [push_free_node(t, p) EXCEPT !.root = NULL]
        ELSE IF replace # NULL
             THEN delete_one_child(swap_offsets(swap_values(t, p, replace), p, replace),
                                   replace)
             ELSE delete_one_child(t, p))))

\* uint32_t arithmetic of the node values
\* are_consecutive taking values two apart for consecutive
are_consecutive_gap(value_1, value_2) == Add32(value_1, 2) = value_2

are_consecutive(value_1, value_2) == Add32(value_1, 1) = value_2

is_empty(tree) == tree.size = 0
is_full(tree) == tree.size = tree.max_size

\* the last value of the range of node n, as the code computes it
LastOf(tree, n) == Add32(Add32(tree.node[n].value, tree.node[n].offset), -1)

\* the loop of try_binary_insert_or_merge from node n: the tree afterwards
\* and the node returned
RECURSIVE BinaryInsertOrMerge(_, _, _)
BinaryInsertOrMerge(tree, value, n) ==
    Bind(tree, LAMBDA t : Bind(n, LAMBDA p :
        LET nd == t.node[p] IN
        IF are_consecutive(value, nd.value)
        THEN Bind(get_left_sucessor(t, p), LAMBDA sucessor :
                 IF sucessor # NULL /\ are_consecutive(LastOf(t, sucessor), value)
                 THEN [tree |-> delete_node(
                                    SetField(SetField(t, p, "value", t.node[sucessor].value),
                                             p, "offset",
                                             nd.offset + t.node[sucessor].offset + 1),
                                    sucessor),
                       node |-> NULL]
                 ELSE [tree |-> SetField(SetField(t, p, "value", value),
                                         p, "offset", nd.offset + 1),
                       node |-> NULL])
        ELSE IF value < nd.value
        THEN IF has_left_child(t, p)
             THEN BinaryInsertOrMerge(t, value, nd.left)
             ELSE Bind(create_red_node(t, value), LAMBDA c :
                      IF c.node = NULL THEN c
                      ELSE [tree |-> SetField(SetField(c.tree, c.node, "parent", p),
                                              p, "left", c.node),
                            node |-> c.node])
        ELSE IF are_consecutive(LastOf(t, p), value)
        THEN Bind(get_right_sucessor(t, p), LAMBDA sucessor :
                 IF sucessor # NULL /\ are_consecutive(value, t.node[sucessor].value)
                 THEN [tree |-> delete_node(
                                    SetField(t, p, "offset",
                                             nd.offset + t.node[sucessor].offset + 1),
                                    sucessor),
                       node |-> NULL]
                 ELSE [tree |-> SetField(t, p, "offset", nd.offset + 1), node |-> NULL])
        ELSE IF value > nd.value
        THEN IF has_right_child(t, p)
             THEN BinaryInsertOrMerge(t, value, nd.right)
             ELSE Bind(create_red_node(t, value), LAMBDA c :
                      IF c.node = NULL THEN c
                      ELSE [tree |-> SetField(SetField(c.tree, c.node, "parent", p),
                                              p, "right", c.node),
                            node |-> c.node])
        ELSE [tree |-> t, node |-> NULL]))

try_binary_insert_or_merge(tree, value) ==
    IF tree.root = NULL
    THEN IF is_full(tree) THEN [tree |-> tree, node |-> NULL]
         ELSE Bind(create_black_node(tree, value), LAMBDA c :
                  [tree |-> [c.tree EXCEPT !.root = c.node], node |-> c.node])
    ELSE BinaryInsertOrMerge(tree, value, tree.root)

\* the last case of try_insert_rebalance: red parent and black uncle
RotateIntoGrandparent(tree, n) ==
    Bind(get_grandparent(tree, n), LAMBDA grandparent :
    Bind(tree.node[n].parent, LAMBDA parent :
        IF is_left_child(tree, n)
        THEN set_red(set_black(rotate_right(tree, grandparent), parent), grandparent)
        ELSE set_red(set_black(rotate_left(tree, grandparent), parent), grandparent)))

RECURSIVE try_insert_rebalance(_, _)
try_insert_rebalance(tree, n) ==
    Bind(tree, LAMBDA t : Bind(n, LAMBDA p : Bind(t.node[p].parent, LAMBDA parent :
    Bind(get_uncle(t, p), LAMBDA uncle : Bind(get_grandparent(t, p), LAMBDA grandparent :
        IF parent = NULL THEN set_black(t, p)
        ELSE IF is_black(t, parent) THEN t
        ELSE IF uncle # NULL /\ is_red(t, uncle)
        THEN try_insert_rebalance(set_red(set_black(set_black(t, parent), uncle),
                                          grandparent), grandparent)
        ELSE IF grandparent = NULL THEN Fault(t)
        ELSE IF parent = t.node[grandparent].left /\ p = t.node[parent].right
        THEN Bind(rotate_left(t, parent), LAMBDA t1 :
                 RotateIntoGrandparent(t1, t1.node[p].left))
        ELSE IF parent = t.node[grandparent].right /\ p = t.node[parent].left
        THEN Bind(rotate_right(t, parent), LAMBDA t1 :
                 RotateIntoGrandparent(t1, t1.node[p].right))
        ELSE RotateIntoGrandparent(t, p))))))

\* the tree create_rb_tree(max_size) returns
RECURSIVE PushAll(_, _)
PushAll(tree, n) ==
    Bind(tree, LAMBDA t : IF n > t.max_size THEN t ELSE PushAll(push_free_node(t, n), n + 1))

create_rb_tree(max_size) ==
    PushAll([node |-> [n \in 1 .. max_size |->
                          [value |-> 0, offset |-> 0, color |-> FALSE,
                           left |-> NULL, right |-> NULL, parent |-> NULL]],
             root |-> NULL, free_node_head |-> NULL, free_node_tail |-> NULL,
             size |-> max_size, max_size |-> max_size, fault |-> FALSE], 1)

\* the tree create_rb_tree(max_size) returns when calloc gives no node block:
\* size stays at max_size and the free list stays empty
create_rb_tree_nomem(max_size) ==
    [node |-> <<>>, root |-> NULL, free_node_head |-> NULL, free_node_tail |-> NULL,
     size |-> max_size, max_size |-> max_size, fault |-> FALSE]

\* insert(value, tree): the tree afterwards and the value returned
insert(value, tree) ==
    Bind(try_binary_insert_or_merge(tree, value), LAMBDA r :
        IF r.node = NULL THEN [tree |-> r.tree, inserted |-> FALSE]
        ELSE [tree |-> try_insert_rebalance(r.tree, r.node), inserted |-> TRUE])

\* the values a caller inserts: the low ones and the top of the 32-bit range
TreeValues == {U32(n) : n \in 0 .. MaxValue} \cup {TopU32(0)}

NoTree ==
    [tree |-> create_rb_tree(0), value |-> U32(0), inserted |-> FALSE, count |-> 0, seen |-> {}]

\* one call of insert on the tree
rb_insert ==
    \E value \in TreeValues :
        LET r == insert(value, rb.tree) IN
        /\ rb.count < MaxInserts
        /\ ~rb.tree.fault
        /\ rb' = [tree |-> r.tree, value |-> value, inserted |-> r.inserted,
                  count |-> rb.count + 1, seen |-> rb.seen \cup {value}]
        /\ UNCHANGED besides_rb

(* ======================= the SDNV codec (bplib_sdnv.c) ================ *)
\* the number of 7-bit groups of a value, 0 for the value 0
RECURSIVE Groups(_)
Groups(tmpval) == IF tmpval > 0 THEN 1 + Groups(tmpval \div 128) ELSE 0

\* the write loop from byte i down to byte index; a byte outside the block
\* is a write through a pointer past the buffer, recorded in oob
RECURSIVE WriteSdnv(_, _, _, _)
WriteSdnv(w, size, i, index) ==
    IF i < index THEN w
    ELSE WriteSdnv([block |-> IF i < size
                              THEN [w.block EXCEPT ![i] = IF i = 0 THEN w.value % 128
                                                           ELSE (w.value % 128) + 128]
                              ELSE w.block,
                    value |-> w.value \div 128,
                    oob |-> w.oob \/ i >= size],
                   size, i - 1, index)

\* bplib_sdnv_write: the block afterwards, the flags raised, the value returned
bplib_sdnv_write(block, size, sdnv) ==
    LET fits == sdnv.width <= size - sdnv.index
        maxbytes == IF sdnv.width <= 0 THEN Groups(sdnv.value)
                    ELSE IF fits THEN sdnv.width
                    ELSE size - sdnv.index
        w == WriteSdnv([block |-> block, value |-> sdnv.value, oob |-> FALSE],
                       size, maxbytes + sdnv.index, sdnv.index)
    IN [block |-> w.block,
        oob |-> w.oob,
        flags |-> (IF sdnv.width > 0 /\ ~fits THEN {"INCOMPLETE"} ELSE {})
                  \cup (IF w.value > 0 THEN {"OVERFLOW"} ELSE {}),
        bytes |-> maxbytes]

\* the read loop at byte i
RECURSIVE ReadSdnv(_, _, _, _, _, _)
ReadSdnv(block, size, width, index, i, r) ==
    IF i < width /\ i < size
    THEN LET value == (r.value * 128) + (block[i] % 128) IN
         IF block[i] < 128
         THEN [value |-> value, flags |-> r.flags, bytes |-> (i + 1) - index]
         ELSE ReadSdnv(block, size, width, index, i + 1,
                       [value |-> value,
                        flags |-> IF size < i + 2 THEN r.flags \cup {"INCOMPLETE"}
                                  ELSE r.flags])
    ELSE [value |-> r.value, flags |-> r.flags \cup {"OVERFLOW"}, bytes |-> i - index]

\* bplib_sdnv_read: the value read, the flags raised, the value returned
bplib_sdnv_read(block, size, sdnv) ==
    ReadSdnv(block, size, IF sdnv.width < 0 THEN size ELSE sdnv.width, sdnv.index,
             sdnv.index, [value |-> 0, flags |-> {}])

SdnvValues == {0, 1, 127, 128, MaxSdnvValue - 1, MaxSdnvValue}

NoCodec ==
    [phase |-> "clear", block |-> [i \in 0 .. (BlockSize - 1) |-> 0], size |-> BlockSize,
     sdnv |-> [value |-> 0, index |-> 0, width |-> 0],
     wflags |-> {}, wbytes |-> 0, oob |-> FALSE, rvalue |-> 0, rflags |-> {}, rbytes |-> 0]

\* a caller writes a value into the first size bytes of the block
codec_write ==
    \E value \in SdnvValues, index \in 0 .. MaxIndex, width \in 0 .. MaxWidth,
       size \in (BlockSize - 1) .. BlockSize :
        LET sdnv == [value |-> value, index |-> index, width |-> width]
            w == bplib_sdnv_write(codec.block, size, sdnv)
        IN
        /\ codec.phase = "clear"
        /\ codec' = [codec EXCEPT !.phase = "written", !.block = w.block, !.size = size,
                                  !.sdnv = sdnv, !.wflags = w.flags, !.wbytes = w.bytes,
                                  !.oob = w.oob]
        /\ UNCHANGED besides_codec

\* the bytes of a block that arrives from elsewhere: a last byte and a
\* continuation byte, each with a zero and a non-zero group
BlockBytes == {0, 1, 128, 129}
\* the widths a reader passes: none (read to the end of the buffer) and fixed
ReadWidths == -1 .. MaxWidth

\* a caller is handed the first size bytes of a block to read a field from
codec_receive ==
    \E block \in [0 .. (BlockSize - 1) -> BlockBytes], index \in 0 .. MaxIndex,
       width \in ReadWidths, size \in (BlockSize - 1) .. BlockSize :
        /\ codec.phase = "clear"
        /\ codec' = [codec EXCEPT !.phase = "received", !.block = block, !.size = size,
                                  !.sdnv = [value |-> 0, index |-> index, width |-> width]]
        /\ UNCHANGED besides_codec

\* the caller reads at the index with the width: back what it wrote, or
\* the field of the block it was handed
codec_read ==
    LET r == bplib_sdnv_read(codec.block, codec.size, codec.sdnv) IN
    /\ codec.phase \in {"written", "received"}
    /\ codec' = [codec EXCEPT !.phase = IF codec.phase = "written" THEN "read" ELSE "decoded",
                              !.rvalue = r.value, !.rflags = r.flags, !.rbytes = r.bytes]
    /\ UNCHANGED besides_codec

\* the block is zeroed for the next value
codec_clear ==
    /\ codec.phase \in {"read", "decoded"}
    /\ codec' = NoCodec
    /\ UNCHANGED besides_codec

(* ============ threads on one channel (bplib.c, os/cfe.c) ============== *)
Threads == {"t1", "t2"}

\* The accesses one call makes to the state the threads share, in program
\* order, each under the line of bplib.c that makes it: lock and unlock of
\* active_table_signal, inc (a statement ch->stats.expired++, a read and a
\* write of the counter) and touch (any other access to the active table,
\* the two CIDs or a counter).
Program(op) ==
    IF op = "load"
    THEN <<[line |-> 501, kind |-> "lock"], [line |-> 520, kind |-> "inc"],
           [line |-> 615, kind |-> "unlock"], [line |-> 631, kind |-> "inc"],
           [line |-> 668, kind |-> "lock"], [line |-> 674, kind |-> "touch"],
           [line |-> 681, kind |-> "unlock"], [line |-> 687, kind |-> "touch"]>>
    ELSE <<[line |-> 730, kind |-> "touch"], [line |-> 744, kind |-> "inc"],
           [line |-> 749, kind |-> "lock"], [line |-> 756, kind |-> "touch"],
           [line |-> 760, kind |-> "unlock"]>>

NoThreads ==
    [op |-> [t \in Threads |-> "none"], pc |-> [t \in Threads |-> 1],
     reg |-> [t \in Threads |-> -1], holders |-> {}, expired |-> 0, increments |-> 0,
     unguarded |-> FALSE, calls |-> 0]

\* the step of its program thread t is at
At(t) ==
    IF threads.op[t] # "none" /\ threads.pc[t] <= Len(Program(threads.op[t]))
    THEN Program(threads.op[t])[threads.pc[t]]
    ELSE [line |-> 0, kind |-> "return"]

\* a thread enters bplib_load or bplib_process
thread_call ==
    \E t \in Threads, op \in {"load", "process"} :
        /\ threads.op[t] = "none"
        /\ threads.calls < MaxCalls
        /\ threads' = [threads EXCEPT !.op[t] = op, !.pc[t] = 1, !.calls = @ + 1]
        /\ UNCHANGED besides_threads

\* bplib_os_lock and bplib_os_unlock return at once, whoever else is between
\* the two; a touch is one access; an inc whose branch is not taken is passed
thread_step ==
    \E t \in Threads :
        /\ At(t).kind \in {"lock", "unlock", "touch", "inc"}
        /\ threads.reg[t] = -1
        /\ threads' = [threads EXCEPT
               !.pc[t] = @ + 1,
               !.holders = IF At(t).kind = "lock" THEN @ \cup {t}
                           ELSE IF At(t).kind = "unlock" THEN @ \ {t}
                           ELSE @,
               !.unguarded = @ \/ (At(t).kind = "touch" /\ t \notin threads.holders)]
        /\ UNCHANGED besides_threads

\* ch->stats.expired++, first half: the counter is read
thread_read ==
    \E t \in Threads :
        /\ At(t).kind = "inc"
        /\ threads.reg[t] = -1
        /\ threads' = [threads EXCEPT
               !.reg[t] = threads.expired,
               !.unguarded = @ \/ t \notin threads.holders]
        /\ UNCHANGED besides_threads

\* ch->stats.expired++, second half: the value read plus one is written
thread_write ==
    \E t \in Threads :
        /\ At(t).kind = "inc"
        /\ threads.reg[t] # -1
        /\ threads' = [threads EXCEPT
               !.expired = threads.reg[t] + 1,
               !.increments = @ + 1,
               !.reg[t] = -1,
               !.pc[t] = @ + 1]
        /\ UNCHANGED besides_threads

\* the call returns
thread_return ==
    \E t \in Threads :
        /\ threads.op[t] # "none"
        /\ At(t).kind = "return"
        /\ threads' = [threads EXCEPT !.op[t] = "none", !.pc[t] = 1]
        /\ UNCHANGED besides_threads

(* ======= calls of load in progress on one channel (bplib.c) =========== *)
\* A call of load touches the channel in two sections, each between
\* bplib_os_lock and bplib_os_unlock of active_table_signal: the scan of the
\* active table and, once a bundle is selected, the assignment of its custody
\* ID and slot. The sections are taken here as the lock promises them, one
\* at a time; between them the call keeps data, sid, ati, newcid, status,
\* flags and sysnow in local variables.
NoLoader ==
    [phase |-> "none", now |-> 0, data |-> "NULL", sid |-> BP_SID_VACANT, ati |-> -1,
     newcid |-> TRUE, released |-> {}]

NoLoaders == [t \in Threads |-> NoLoader]

\* the local variables the call c carries from the first section to the second
Locals(c, now) ==
    [phase |-> "scanned", now |-> now, data |-> c.data, sid |-> c.sid, ati |-> c.ati,
     newcid |-> c.newcid, released |-> {}]

\* the call with local variables l as it enters its second section
Resume(l) ==
    [Call("load") EXCEPT !.data = l.data, !.sid = l.sid, !.ati = l.ati,
                         !.newcid = l.newcid]

\* what a section leaves in the channel
Share(c) ==
    /\ active_table' = c.active_table
    /\ oldest_active_cid' = c.oldest
    /\ current_active_cid' = c.current
    /\ store' = c.store
    /\ issued' = c.issued
    /\ UNCHANGED <<attributes, bundle, stats, sysnow, last, acs, rb, codec, threads>>

\* the calls of load that hold a selected bundle
Selecting == {t \in Threads : loaders[t].phase = "scanned"}

\* a thread enters load: the DACS check, the scan section and the dequeue loop
loader_scan ==
    \E t \in Threads, in \in {x \in LoadInputs : x.buf = "ok"} :
        LET c == DequeueStored(LoadActive(LoadDacs(Call("load"), in.dacs), sysnow),
                               sysnow, in.deq_ok)
        IN
        /\ Idle
        /\ loaders[t].phase = "none"
        /\ current_active_cid + Cardinality(Selecting) < MaxCid
        /\ Share(c)
        /\ loaders' = [loaders EXCEPT ![t] = Locals(c, sysnow)]

\* the header of the selected bundle as the call reads it: as stored, or,
\* when the storage service has released the bundle in the meantime, whatever
\* the released memory holds (a CTEB offset or none)
HeaderRead(c, cteb) ==
    IF c.data = "BUNDLE" /\ c.sid \notin c.store.held
    THEN [c EXCEPT !.store.data[c.sid].cteb = cteb]
    ELSE c

\* the thread goes on to Send Bundle if Ready to Send, with the emission
\* section, and returns
loader_send ==
    \E t \in Threads, buf \in Buffers, cteb \in BOOLEAN :
        LET l == loaders[t]
            c == SendBundle(HeaderRead(Resume(l), cteb), l.now, buf)
        IN
        /\ Idle
        /\ l.phase = "scanned"
        /\ Share(c)
        /\ loaders' = [loaders EXCEPT ![t] = NoLoader]

\* another thread calls process with an acknowledging DACS: its locked
\* section runs between the sections of the calls of load in progress, which
\* learn nothing of the bundles it relinquishes (released keeps them)
process_meanwhile ==
    \E rec \in {r \in DacsRecords : r.ack} :
        LET c == Process(Call("process"), "PENDINGACKNOWLEDGMENT", rec)
            gone == store.held \ c.store.held
        IN
        /\ Idle
        /\ Share(c)
        /\ loaders' = [t \in Threads |->
                          IF loaders[t].phase = "scanned"
                          THEN [loaders[t] EXCEPT !.released = @ \cup gone]
                          ELSE loaders[t]]

\* the clock reaches the retransmission timeout
TickToTimeout == Tick /\ sysnow < TimeoutSecs

(* ------------------------- drivers of the tree ------------------------ *)
\* one call of insert with a value of 0 .. max_size - 1 not inserted before
rb_insert_distinct ==
    \E value \in {U32(n) : n \in 0 .. (rb.tree.max_size - 1)} \ rb.seen :
        LET r == insert(value, rb.tree) IN
        /\ ~rb.tree.fault
        /\ rb' = [tree |-> r.tree, value |-> value, inserted |-> r.inserted,
                  count |-> rb.count + 1, seen |-> rb.seen \cup {value}]
        /\ UNCHANGED besides_rb

(* ---------------------------- specifications -------------------------- *)
\* the channel API
Init ==
    /\ bplib_open
    /\ acs = NoAcs /\ rb = NoTree /\ codec = NoCodec /\ threads = NoThreads /\ loaders = NoLoaders

Next ==
    \/ bplib_store
    \/ bplib_load
    \/ bplib_process
    \/ bplib_flush
    \/ bplib_latchstats
    \/ bplib_config
    \/ Tick
    \/ Return

Spec == Init /\ [][Next]_vars

\* a channel that the components' specifications leave alone
ChannelAtRest ==
    /\ bplib_open
    /\ attributes = [lifetime |-> 0, request_custody |-> TRUE, timeout |-> 0,
                     wrap_response |-> "RESEND", cid_reuse |-> FALSE]

\* the ACS writer and reader
InitAcs ==
    /\ ChannelAtRest
    /\ acs = NoAcs /\ rb = NoTree /\ codec = NoCodec /\ threads = NoThreads /\ loaders = NoLoaders
NextAcs ==
    custody_insert \/ custody_write \/ custody_read \/ custody_read_status \/ custody_reset
SpecAcs == InitAcs /\ [][NextAcs]_vars

\* the interval tree, created with any capacity up to MaxTreeSize, with and
\* without memory for its node block
InitTree ==
    /\ ChannelAtRest
    /\ acs = NoAcs
    /\ codec = NoCodec
    /\ threads = NoThreads /\ loaders = NoLoaders
    /\ \E max_size \in 0 .. MaxTreeSize :
          \/ rb = [NoTree EXCEPT !.tree = create_rb_tree(max_size)]
          \/ rb = [NoTree EXCEPT !.tree = create_rb_tree_nomem(max_size)]
NextTree == rb_insert
SpecTree == InitTree /\ [][NextTree]_vars

\* the interval tree of capacity N filled with a permutation of 0 .. N-1
InitPermute ==
    /\ ChannelAtRest
    /\ acs = NoAcs
    /\ codec = NoCodec
    /\ threads = NoThreads /\ loaders = NoLoaders
    /\ \E max_size \in 1 .. MaxPermute : rb = [NoTree EXCEPT !.tree = create_rb_tree(max_size)]
NextPermute == rb_insert_distinct
SpecPermute == InitPermute /\ [][NextPermute]_vars

\* bplib_config on a channel opened with every attribute
InitConfig ==
    /\ attributes \in [lifetime : {0, LifetimeSecs}, request_custody : BOOLEAN,
                       admin_record : {FALSE}, integrity_check : {TRUE},
                       allow_fragmentation : {FALSE}, cipher_suite : {0},
                       timeout : {TimeoutSecs}, max_length : {0},
                       wrap_response : {"RESEND"}, cid_reuse : {FALSE}, dacs_rate : {0}]
    /\ ChannelCreated
    /\ acs = NoAcs /\ rb = NoTree /\ codec = NoCodec /\ threads = NoThreads /\ loaders = NoLoaders
NextConfig == bplib_config_any \/ Return
SpecConfig == InitConfig /\ [][NextConfig]_vars

\* the SDNV codec on one block
InitSdnv ==
    /\ ChannelAtRest
    /\ acs = NoAcs /\ rb = NoTree /\ codec = NoCodec /\ threads = NoThreads /\ loaders = NoLoaders
NextSdnv == codec_write \/ codec_receive \/ codec_read \/ codec_clear
SpecSdnv == InitSdnv /\ [][NextSdnv]_vars

\* store and load alone on a channel whose bundles request custody and
\* expire, followed one custody ID further than in Spec
InitScan ==
    /\ attributes \in [lifetime : {LifetimeSecs},
                       request_custody : {TRUE},
                       timeout : {0, TimeoutSecs},
                       wrap_response : WrapResponses,
                       cid_reuse : BOOLEAN]
    /\ ChannelCreated
    /\ acs = NoAcs /\ rb = NoTree /\ codec = NoCodec /\ threads = NoThreads /\ loaders = NoLoaders
NextScan == bplib_store \/ bplib_load_on \/ Tick \/ Return
SpecScan == InitScan /\ [][NextScan]_vars

\* a caller that stores bundles and then calls load again and again while
\* the clock advances, on a channel with a custody timeout whose bundles
\* never expire; process and flush are never called
InitRetransmit ==
    /\ attributes \in [lifetime : {0},
                       request_custody : {TRUE},
                       timeout : {TimeoutSecs},
                       wrap_response : WrapResponses,
                       cid_reuse : BOOLEAN]
    /\ ChannelCreated
    /\ acs = NoAcs /\ rb = NoTree /\ codec = NoCodec /\ threads = NoThreads /\ loaders = NoLoaders
NextRetransmit == bplib_store \/ bplib_load_ready \/ Tick \/ Return
SpecRetransmit ==
    /\ InitRetransmit
    /\ [][NextRetransmit]_vars
    /\ SF_vars(bplib_load_ready)
    /\ WF_vars(Return)
    /\ SF_vars(Tick)

\* two threads in load and a third in process on a channel whose bundles
\* request custody
InitRace ==
    /\ attributes \in [lifetime : {0},
                       request_custody : {TRUE},
                       timeout : {0, TimeoutSecs},
                       wrap_response : WrapResponses,
                       cid_reuse : BOOLEAN]
    /\ ChannelCreated
    /\ acs = NoAcs /\ rb = NoTree /\ codec = NoCodec /\ threads = NoThreads /\ loaders = NoLoaders
NextRace ==
    \/ bplib_store
    \/ Return
    \/ TickToTimeout
    \/ loader_scan
    \/ loader_send
    \/ process_meanwhile
SpecRace == InitRace /\ [][NextRace]_vars

\* two threads in bplib_load and bplib_process
InitThreads ==
    /\ ChannelAtRest
    /\ acs = NoAcs /\ rb = NoTree /\ codec = NoCodec /\ threads = NoThreads /\ loaders = NoLoaders
NextThreads == thread_call \/ thread_step \/ thread_read \/ thread_write \/ thread_return
SpecThreads == InitThreads /\ [][NextThreads]_vars

(* ======================= properties of the channel ==================== *)
\* the occupied slots of the active table
NonVacant == {i \in Slots : active_table[i].sid # BP_SID_VACANT}

\* a step that is a call of load whose custody store held no DACS, so that
\* the call went on to the active table
LoadScanStep == Idle /\ last'.op = "load" /\ "ROUTENEEDED" \notin last'.flags

\* the bundle store served a dequeue during the call that produced res
Dequeued(res) == \E k \in 1 .. Len(res.calls) : res.calls[k][1] = "dequeue"

\* the call that produced res relinquished sid
Relinquished(res, sid) ==
    \E k \in 1 .. Len(res.calls) : res.calls[k][1] = "relinquish" /\ res.calls[k][2] = sid

\* the bundle at oldest_active_cid is held by the store and not expired
OldestLive ==
    /\ oldest_active_cid # current_active_cid
    /\ LET sid == active_table[ATI(oldest_active_cid)].sid IN
         /\ sid # BP_SID_VACANT
         /\ sid \in store.held
         /\ ~(store.data[sid].exprtime # 0 /\ sysnow >= store.data[sid].exprtime)

\* the bundle at oldest_active_cid is due for retransmission
OldestTimedOut ==
    /\ attributes.timeout # 0
    /\ sysnow >= active_table[ATI(oldest_active_cid)].retx + attributes.timeout

\* C1: in every reachable state oldest_active_cid <= current_active_cid and
\* current_active_cid - oldest_active_cid <= active_table_size.
C1_ActiveTableBounds ==
    /\ oldest_active_cid <= current_active_cid
    /\ current_active_cid - oldest_active_cid <= ActiveTableSize

\* C2: with wrap_response BLOCK, the oldest active bundle live and not timed
\* out and the slot at current_active_cid occupied, load returns OVERFLOW,
\* dequeues no fresh bundle and leaves the slots, oldest_active_cid and
\* current_active_cid unchanged.
C2_WrapBlock ==
    [][(/\ LoadScanStep
        /\ attributes.wrap_response = "BLOCK"
        /\ OldestLive
        /\ ~OldestTimedOut
        /\ active_table[ATI(current_active_cid)].sid # BP_SID_VACANT)
       => (/\ last'.status = "OVERFLOW"
           /\ ~Dequeued(last')
           /\ UNCHANGED <<active_table, oldest_active_cid, current_active_cid>>)]_vars

\* C3: in every reachable state every occupied slot names a bundle the
\* storage service still holds (dequeued and not yet relinquished).
C3_SlotStorageConsistency ==
    \A i \in NonVacant : active_table[i].sid \in store.held

RECURSIVE FillSum(_, _)
FillSum(fills, n) == IF n = 0 THEN 0 ELSE FillSum(fills, n - 1) + fills[n]

\* the CID set an ACS record covers: its runs are the fills at the odd
\* positions, each starting where the fills before it end
CoveredCids(rec) ==
    UNION {{rec.cid + FillSum(rec.fills, k - 1) + j : j \in 0 .. (rec.fills[k] - 1)} :
              k \in {n \in 1 .. Len(rec.fills) : n % 2 = 1}}

\* the acknowledging ACS records process may be given
AckRecords == {rec \in DacsRecords : rec.ack}

\* C5: when process handles a DACS with the ack bit set whose runs cover the
\* CID set C, every occupied slot (c mod active_table_size), c in C, has its
\* sid relinquished and becomes vacant, stats.acknowledged grows by the number
\* of those slots whose relinquish succeeded, and every slot no CID of C
\* indexes is unchanged.
C5_AcknowledgeEffect ==
    Idle =>
      \A rec \in AckRecords :
        LET res == Process(Call("process"), "PENDINGACKNOWLEDGMENT", rec)
            covered == {ATI(cid) : cid \in CoveredCids(rec)}
            hit == covered \cap NonVacant
        IN
        /\ \A i \in hit :
              /\ Relinquished(res, active_table[i].sid)
              /\ res.active_table[i].sid = BP_SID_VACANT
        /\ res.store.held = store.held \ {active_table[i].sid : i \in hit}
        /\ res.stats.acknowledged =
              Cardinality({i \in hit : active_table[i].sid \in store.held})
        /\ \A i \in Slots \ covered : res.active_table[i] = active_table[i]

\* process has acknowledged one bundle and left another slot occupied
C5_Witness ==
    /\ last.op = "process"
    /\ stats.acknowledged = 1
    /\ Relinquished(last, 1)
    /\ NonVacant # {}

NewCidEmission ==
    /\ Idle
    /\ last'.op = "load"
    /\ last'.status = "SIZE"
    /\ last'.emitted # BP_SID_VACANT
    /\ store.data[last'.emitted].cteb
    /\ last'.newcid

\* C7: the first custody bundle emitted after open carries CID 1, every
\* emission that assigns a new CID carries a CID greater than every CID
\* assigned before, and no CID is assigned twice.
C7_CidAssignmentOrder ==
    [][NewCidEmission
       => (/\ issued' = Append(issued, last'.cid)
           /\ store'.data[last'.emitted].cid = last'.cid
           /\ issued = <<>> => last'.cid = 1
           /\ \A k \in 1 .. Len(issued) : issued[k] < last'.cid)]_vars

\* a third CID has been assigned, by a retransmission under a new CID
C7_Witness ==
    /\ last.op = "load"
    /\ Len(issued) = 3
    /\ stats.retransmitted = 1
    /\ last.cid = 3

\* a step in which load, with a custody timeout set, finds the bundle at
\* oldest_active_cid live and timed out
TimeoutStep == LoadScanStep /\ OldestLive /\ OldestTimedOut

\* what C8 claims of a retransmission under a new CID
RetransmitNewCid ==
    LET ati == ATI(oldest_active_cid)
        sid == active_table[ati].sid
        nati == ATI(current_active_cid)
    IN
    /\ nati # ati => active_table'[ati].sid = BP_SID_VACANT
    /\ last'.status = "SIZE"
    /\ last'.emitted = sid
    /\ last'.cid = current_active_cid
    /\ store'.data[sid].cid = current_active_cid
    /\ active_table'[nati] = [sid |-> sid, retx |-> sysnow]
    /\ oldest_active_cid' = oldest_active_cid + 1
    /\ current_active_cid' = current_active_cid + 1
    /\ stats'.retransmitted = 1

\* the retransmission that cannot be copied out: the bundle is dropped
RetransmitDropped ==
    LET ati == ATI(oldest_active_cid)
        sid == active_table[ati].sid
    IN
    /\ active_table' = [active_table EXCEPT ![ati].sid = BP_SID_VACANT]
    /\ last'.emitted = BP_SID_VACANT
    /\ Relinquished(last', sid)
    /\ sid \notin store'.held
    /\ oldest_active_cid' = oldest_active_cid + 1
    /\ current_active_cid' = current_active_cid
    /\ stats'.retransmitted = 1
    /\ stats'.lost = 1

\* C8 (as claimed): with timeout # 0 and cid_reuse false, a load that finds
\* the oldest active bundle live and timed out vacates its slot, emits it
\* under the new CID current_active_cid, installs it in that CID's slot with
\* retx = sysnow and increments oldest_active_cid, current_active_cid and
\* stats.retransmitted by one each.
C8_RetransmitNewCid ==
    [][(TimeoutStep /\ ~attributes.cid_reuse) => RetransmitNewCid]_vars

\* C8 (amended): the same, provided the bundle can be copied out (the
\* caller's buffer is large enough or can be allocated); when it cannot, load
\* fails with BUNDLETOOLARGE or FAILEDMEM, the slot stays vacated, the bundle
\* is relinquished and counted lost, oldest_active_cid and
\* stats.retransmitted still grow by one and current_active_cid is unchanged.
C8_RetransmitNewCidOrDrop ==
    [][(TimeoutStep /\ ~attributes.cid_reuse)
       => IF last'.status \in {"BUNDLETOOLARGE", "FAILEDMEM"}
          THEN RetransmitDropped
          ELSE RetransmitNewCid]_vars

\* a timed-out bundle has been re-emitted under a new CID in the other slot
C8_Witness ==
    /\ last.op = "load"
    /\ last.path = <<"timeout_newcid">>
    /\ last.status = "SIZE"
    /\ last.cid = 2
    /\ active_table[ATI(2)] = [sid |-> 1, retx |-> sysnow]
    /\ active_table[ATI(1)].sid = BP_SID_VACANT

C10_FlushEmptiesTable ==
    [][(Idle /\ last'.op = "flush")
       => (/\ \A i \in NonVacant : Relinquished(last', active_table[i].sid)
           /\ \A i \in Slots : active_table'[i].sid = BP_SID_VACANT
           /\ oldest_active_cid' = current_active_cid'
           /\ stats'.lost = Cardinality(NonVacant))]_vars

(* ================== properties of the ACS writer and reader =========== *)
\* the elements of a set of CIDs in increasing order
RECURSIVE Ascending(_)
Ascending(S) ==
    IF S = {} THEN <<>> ELSE <<Lowest(S)>> \o Ascending(S \ {Lowest(S)})

\* the fill limit holds every range of the tree
FillLimitHoldsAll == acs.max_fills >= 2 * Len(TreeRanges(acs.cids))

\* the writer has been run on the tree, and the reader on what it produced
AcsRoundTripDone == acs.phase \in {"read", "failed"} /\ FillLimitHoldsAll

\* the reader acknowledged exactly the accumulated CIDs, each once, in
\* increasing order, and counted those whose callback succeeded
AcsAcknowledgesAll ==
    /\ acs.phase = "read"
    /\ acs.acks = Ascending(acs.cids)
    /\ acs.rstatus = "COUNT"
    /\ acs.ack_count = Cardinality(acs.cids \ acs.failing)

\* every field of the record fits the width the writer gives it: the first
\* CID four 7-bit groups, every run and every gap two
AcsFieldsFit ==
    LET ranges == TreeRanges(acs.cids) IN
    /\ ranges[1].value < Pow128(4)
    /\ \A k \in 1 .. Len(ranges) : ranges[k].offset + 1 < Pow128(2)
    /\ \A k \in 2 .. Len(ranges) :
          ranges[k].value - (ranges[k - 1].value + ranges[k - 1].offset + 1) < Pow128(2)

RECURSIVE InOrder(_, _, _)
InOrder(tree, n, depth) ==
    IF n = NULL \/ depth = 0 THEN <<>>
    ELSE InOrder(tree, tree.node[n].left, depth - 1) \o <<n>>
         \o InOrder(tree, tree.node[n].right, depth - 1)

TreeNodes(tree) == InOrder(tree, tree.root, tree.max_size + 1)

\* the number of black nodes on every path from n down to a null link, or
\* -1 when two paths differ
RECURSIVE BlackDepth(_, _, _)
BlackDepth(tree, n, depth) ==
    IF n = NULL \/ depth = 0 THEN 0
    ELSE LET l == BlackDepth(tree, tree.node[n].left, depth - 1)
             r == BlackDepth(tree, tree.node[n].right, depth - 1)
         IN IF l = -1 \/ r = -1 \/ l # r THEN -1
            ELSE l + (IF is_black(tree, n) THEN 1 ELSE 0)

RootIsBlack(tree) == is_black(tree, tree.root)

NoRedRed(tree) ==
    \A k \in 1 .. Len(TreeNodes(tree)) :
        LET n == TreeNodes(tree)[k] IN
        is_red(tree, n) => is_black(tree, tree.node[n].left) /\ is_black(tree, tree.node[n].right)

EqualBlackDepth(tree) == BlackDepth(tree, tree.root, tree.max_size + 1) # -1

ValuesIncrease(tree) ==
    \A k \in 1 .. (Len(TreeNodes(tree)) - 1) :
        tree.node[TreeNodes(tree)[k]].value < tree.node[TreeNodes(tree)[k + 1]].value

\* the tree holds as many nodes as size says, each linked back to its parent
WellLinked(tree) ==
    /\ ~tree.fault
    /\ Len(TreeNodes(tree)) = tree.size
    /\ \A k \in 1 .. Len(TreeNodes(tree)) :
          LET n == TreeNodes(tree)[k] IN
          /\ tree.node[n].left # NULL => tree.node[tree.node[n].left].parent = n
          /\ tree.node[n].right # NULL => tree.node[tree.node[n].right].parent = n

\* C12: after any sequence of inserts into a tree of any capacity, merging
\* inserts included, the root is black, no red node has a red child, every
\* path from the root to a null link has the same number of black nodes, and
\* the node values increase strictly in order.
C12_TreeIsValid ==
    /\ RootIsBlack(rb.tree)
    /\ NoRedRed(rb.tree)
    /\ EqualBlackDepth(rb.tree)
    /\ ValuesIncrease(rb.tree)

\* the nodes linked into the tree
Linked(tree) == {TreeNodes(tree)[k] : k \in 1 .. Len(TreeNodes(tree))}

\* the last value of a node's range [value, value + offset), in the integers
RangeLast(nd) ==
    IF nd.value > Bias32 - (nd.offset - 1) THEN Bias32 ELSE nd.value + (nd.offset - 1)

Covers(nd, v) == nd.value <= v /\ v <= RangeLast(nd)
Touches(nd, v) ==
    \/ v < Bias32 /\ v + 1 = nd.value
    \/ RangeLast(nd) < Bias32 /\ RangeLast(nd) + 1 = v

Covered(tree, v) == \E n \in Linked(tree) : Covers(tree.node[n], v)
Adjacent(tree, v) == \E n \in Linked(tree) : Touches(tree.node[n], v)

\* C13: after any sequence of inserts, values strictly inside an existing
\* range included, any two distinct nodes A and B with A.value < B.value
\* satisfy A.value + A.offset < B.value: no value is covered by two nodes
\* and no two ranges touch.
C13_RangesDisjointNonAdjacent ==
    \A a, b \in Linked(rb.tree) :
        LET A == rb.tree.node[a]
            B == rb.tree.node[b]
        IN (a # b /\ A.value < B.value) =>
               /\ A.value <= Bias32 - A.offset
               /\ A.value + A.offset < B.value

\* C15: inserting a value already represented in the tree, equal to a
\* node's value or anywhere inside a node's range, reports failure and
\* changes nothing: nodes, values, offsets, colors and size stay as they were.
C15_DuplicateChangesNothing ==
    \A value \in TreeValues :
        Covered(rb.tree, value) =>
            insert(value, rb.tree) = [tree |-> rb.tree, inserted |-> FALSE]

\* C16: when the pool is exhausted (size = max_size, max_size = 0 included)
\* and the value is neither covered by nor adjacent to a range of the tree,
\* insert fails and leaves the nodes, ranges, colors, size and free list as
\* they were, so a valid tree stays valid.
C16_FullTreeRejects ==
    \A value \in TreeValues :
        (is_full(rb.tree) /\ ~Covered(rb.tree, value) /\ ~Adjacent(rb.tree, value)) =>
            insert(value, rb.tree) = [tree |-> rb.tree, inserted |-> FALSE]

\* C14: inserting the values 0 .. N-1 in any order into an empty tree of
\* capacity N leaves one node, black, of value 0 and covering all N
\* values, and a tree of size 1.
C14_PermutationCoalesces ==
    LET N == rb.tree.max_size IN
    (N >= 1 /\ rb.count = N /\ rb.seen = {U32(n) : n \in 0 .. (N - 1)}) =>
        /\ rb.tree.size = 1
        /\ rb.tree.root # NULL
        /\ Linked(rb.tree) = {rb.tree.root}
        /\ is_black(rb.tree, rb.tree.root)
        /\ rb.tree.node[rb.tree.root].value = U32(0)
        /\ rb.tree.node[rb.tree.root].offset = N
        /\ ~rb.tree.fault

\* the last of four values, inserted between two ranges, merged them into one
C14_Witness ==
    /\ rb.tree.max_size = MaxPermute
    /\ rb.count = MaxPermute
    /\ rb.seen = {U32(n) : n \in 0 .. (MaxPermute - 1)}
    /\ rb.value = U32(3)
    /\ rb.tree.size = 1
    /\ rb.tree.node[rb.tree.root].offset = MaxPermute

(* ===================== properties of the SDNV codec =================== *)
\* a value was written with a fixed width that holds it, into a block with
\* at least that many bytes after the index, and read back
SdnvRoundTripDone ==
    /\ codec.phase = "read"
    /\ codec.sdnv.width >= 1
    /\ codec.sdnv.value < Pow128(codec.sdnv.width)
    /\ codec.size - codec.sdnv.index >= codec.sdnv.width

\* C17: for every value and every fixed width that holds it in 7-bit groups,
\* in a block with at least that many bytes after the index, writing the
\* value and reading from the same index yields the value, consumes exactly
\* the bytes written, and raises neither OVERFLOW nor INCOMPLETE in either
\* call.
C17_SdnvRoundTrip ==
    SdnvRoundTripDone =>
        /\ codec.rvalue = codec.sdnv.value
        /\ codec.rbytes = codec.wbytes
        /\ codec.wflags = {}
        /\ codec.rflags = {}

(* ====================== properties of bplib_config ==================== *)
\* C18: after any successful config call in WRITE mode the template is
\* marked not prebuilt, so that the next store rebuilds it from the new
\* attributes; a config call in READ mode leaves the prebuilt flag and all
\* attributes as they were.
C18_ConfigWriteInvalidates ==
    \A call \in AllConfigCalls :
        LET r == ConfigResult(call) IN
        /\ (call.mode = "WRITE" /\ r.status = "SUCCESS") =>
               /\ r.bundle.prebuilt = FALSE
               /\ TemplateSent(r.bundle, r.attributes) = v6_build(r.attributes)
        /\ call.mode = "READ" =>
               r.attributes = attributes /\ r.bundle.prebuilt = bundle.prebuilt

\* a call the validation of bplib_config must refuse
ConfigInvalid(call) ==
    \/ call.opt \notin Options
    \/ ~call.len_ok
    \/ call.mode = "WRITE" /\ call.opt \in BoolOptions /\ call.val \notin {0, 1}
    \/ call.mode = "WRITE" /\ call.opt = "wrap_response"
                           /\ call.val \notin {"RESEND", "BLOCK", "DROP"}

\* C19: a config call with an unknown option, with a length that is not
\* the size of an int, with a value other than 0 or 1 written to a boolean
\* option, or with a wrap_response other than RESEND, BLOCK or DROP returns
\* PARMERR and leaves every attribute and the prebuilt flag as they were.
C19_ConfigValidation ==
    \A call \in AllConfigCalls :
        ConfigInvalid(call) =>
            ConfigResult(call) =
                [status |-> "PARMERR", attributes |-> attributes, bundle |-> bundle]

\* a refused call has returned on a channel whose attributes earlier calls
\* had changed
C19_Witness ==
    /\ last.op = "config"
    /\ last.status = "PARMERR"
    /\ attributes.cid_reuse = TRUE
    /\ attributes.wrap_response = "DROP"
    /\ attributes.integrity_check = FALSE

(* ==================== properties of the lock discipline =============== *)
\* C20: every access to an active-table slot, to oldest_active_cid, to
\* current_active_cid and every update of a statistics counter on the load
\* and process paths is made by a thread that holds the active-table lock,
\* at most one thread holds it, and no increment of a counter is lost: the
\* counter equals the number of increments made.
C20_LockDiscipline ==
    /\ ~threads.unguarded
    /\ Cardinality(threads.holders) <= 1
    /\ (\A t \in Threads : threads.reg[t] = -1) => threads.expired = threads.increments

ExpiredDequeues(res) ==
    {k \in 1 .. Len(res.calls) :
        /\ res.calls[k][1] = "dequeue"
        /\ store.data[res.calls[k][2]].exprtime # 0
        /\ sysnow >= store.data[res.calls[k][2]].exprtime}

\* the number of bundles the scan of the call found expired
ScanExpiries(res) == Cardinality({k \in 1 .. Len(res.path) : res.path[k] = "expired"})

\* C22: a bundle dequeued from the bundle storage with exprtime # 0 and
\* sysnow >= exprtime is relinquished (once, right after the dequeue),
\* counted once in stats.expired, not emitted and not installed in the active
\* table, and load dequeues again; when the storage then has no further
\* bundle load returns TIMEOUT.
C22_DequeueExpiry ==
    [][(Idle /\ last'.op = "load")
       => LET res == last'
              n == Len(res.calls)
          IN
          /\ \A k \in ExpiredDequeues(res) :
                LET sid == res.calls[k][2] IN
                /\ k < n /\ res.calls[k + 1] = <<"relinquish", sid, TRUE>>
                /\ Cardinality({j \in 1 .. n : res.calls[j][1] = "relinquish"
                                               /\ res.calls[j][2] = sid}) = 1
                /\ sid \notin store'.held
                /\ res.emitted # sid
                /\ \A i \in Slots : active_table'[i].sid # sid
                /\ \/ k + 2 <= n /\ res.calls[k + 2][1] = "dequeue"
                   \/ k + 1 = n /\ res.status = "TIMEOUT" /\ store'.queue = <<>>
                   \/ k + 1 = n /\ res.status = "FAILEDSTORE"
          /\ stats'.expired = ScanExpiries(res) + Cardinality(ExpiredDequeues(res))]_vars

\* load has dequeued two expired bundles one after the other and returned
\* TIMEOUT from the empty storage
C22_Witness ==
    /\ last.op = "load"
    /\ last.status = "TIMEOUT"
    /\ stats.expired = 2
    /\ Len(last.calls) = 4
    /\ last.calls[1][1] = "dequeue" /\ last.calls[3][1] = "dequeue"
    /\ NonVacant = {}

\* the bundle at oldest_active_cid is held by the store and has expired
OldestExpired ==
    /\ oldest_active_cid # current_active_cid
    /\ LET sid == active_table[ATI(oldest_active_cid)].sid IN
         /\ sid # BP_SID_VACANT
         /\ sid \in store.held
         /\ store.data[sid].exprtime # 0 /\ sysnow >= store.data[sid].exprtime

\* the iterations of the scan of res that advanced oldest_active_cid
Advances(res) ==
    Cardinality({k \in 1 .. Len(res.path) :
        res.path[k] \in {"vacant", "expired", "timeout_reuse", "timeout_newcid",
                         "wrap_resend", "wrap_resend_failed", "wrap_drop"}})

\* C23: when the scan of load finds the oldest active bundle with
\* exprtime # 0 and sysnow >= exprtime it relinquishes the bundle's sid
\* (once), vacates the slot, counts one expiry and advances
\* oldest_active_cid by one, does not emit the bundle, and goes on to scan
\* the next CID when there is one.
C23_ScanExpiry ==
    [][(LoadScanStep /\ OldestExpired)
       => LET res == last'
              ati == ATI(oldest_active_cid)
              sid == active_table[ati].sid
          IN
          /\ res.path # <<>> /\ res.path[1] = "expired"
          /\ res.calls # <<>> /\ res.calls[1] = <<"relinquish", sid, TRUE>>
          /\ Cardinality({j \in 1 .. Len(res.calls) :
                            res.calls[j][1] = "relinquish" /\ res.calls[j][2] = sid}) = 1
          /\ sid \notin store'.held
          /\ \A i \in Slots : active_table'[i].sid # sid
          /\ res.emitted # sid
          /\ oldest_active_cid' = oldest_active_cid + Advances(res)
          /\ stats'.expired = ScanExpiries(res) + Cardinality(ExpiredDequeues(res))
          /\ IF oldest_active_cid + 1 = current_active_cid
             THEN /\ res.path = <<"expired">>
                  /\ oldest_active_cid' = oldest_active_cid + 1
                  /\ stats'.expired = 1 + Cardinality(ExpiredDequeues(res))
                  /\ active_table'[ati].sid = BP_SID_VACANT \/ res.emitted # BP_SID_VACANT
             ELSE Len(res.path) >= 2]_vars

\* load has found the oldest active bundle expired, dropped it, and gone on
\* to the next CID, whose bundle it found live with room in the table
C23_Witness ==
    /\ last.op = "load"
    /\ Len(last.path) = 2 /\ last.path[1] = "expired" /\ last.path[2] = "room"
    /\ stats.expired = 1
    /\ Cardinality(NonVacant) >= 1

\* the live bundles the bundle store handed out during the call of res (at
\* most one: the call selects the first)
FreshDequeued(res) ==
    {res.calls[k][2] : k \in {j \in 1 .. Len(res.calls) : res.calls[j][1] = "dequeue"}
                                  \ ExpiredDequeues(res)}

\* a step in which load finds the oldest active bundle live and not timed
\* out and the slot at current_active_cid occupied
WrapStep ==
    /\ LoadScanStep
    /\ OldestLive
    /\ ~OldestTimedOut
    /\ active_table[ATI(current_active_cid)].sid # BP_SID_VACANT

\* wrap policy DROP: what load does to the slot at current_active_cid
WrapDropped ==
    LET ati == ATI(current_active_cid)
        sid == active_table[ati].sid
    IN
    /\ last'.path = <<"wrap_drop">>
    /\ last'.calls # <<>> /\ last'.calls[1][1] = "relinquish" /\ last'.calls[1][2] = sid
    /\ sid \notin store'.held
    /\ \A i \in Slots \ {ati} : active_table'[i] = active_table[i]
    /\ oldest_active_cid' = oldest_active_cid + 1

\* C24 (as claimed): with wrap_response DROP, the oldest active bundle live
\* and not timed out and the slot at current_active_cid occupied, load
\* relinquishes the bundle in that slot, vacates the slot, increments
\* stats.lost and oldest_active_cid by one each, and a fresh bundle dequeued
\* afterwards is installed in the freed slot.
C24_WrapDrop ==
    [][(WrapStep /\ attributes.wrap_response = "DROP")
       => LET ati == ATI(current_active_cid) IN
          /\ WrapDropped
          /\ stats'.lost = 1
          /\ IF FreshDequeued(last') = {}
             THEN active_table'[ati].sid = BP_SID_VACANT
             ELSE active_table'[ati].sid \in FreshDequeued(last')]_vars

\* C24 (amended): the same, where the fresh bundle is installed in the freed
\* slot, under the CID current_active_cid, when it carries a CTEB and is
\* copied out to the caller; a fresh bundle without a CTEB is emitted and
\* the slot stays vacant; a fresh bundle that cannot be copied out
\* (BUNDLETOOLARGE, FAILEDMEM) is relinquished and counted lost as well, and
\* the slot stays vacant.
C24_WrapDropThenInstall ==
    [][(WrapStep /\ attributes.wrap_response = "DROP")
       => LET ati == ATI(current_active_cid)
              fresh == FreshDequeued(last')
              failed == last'.status \in {"BUNDLETOOLARGE", "FAILEDMEM"}
          IN
          /\ WrapDropped
          /\ Cardinality(fresh) <= 1
          /\ stats'.lost = IF fresh # {} /\ failed THEN 2 ELSE 1
          /\ \A f \in fresh :
                IF failed
                THEN /\ active_table'[ati].sid = BP_SID_VACANT
                     /\ f \notin store'.held
                     /\ current_active_cid' = current_active_cid
                ELSE /\ last'.status = "SIZE" /\ last'.emitted = f
                     /\ IF store.data[f].cteb
                        THEN /\ active_table'[ati] = [sid |-> f, retx |-> sysnow]
                             /\ store'.data[f].cid = current_active_cid
                             /\ current_active_cid' = current_active_cid + 1
                        ELSE /\ active_table'[ati].sid = BP_SID_VACANT
                             /\ current_active_cid' = current_active_cid
          /\ fresh = {} => (/\ active_table'[ati].sid = BP_SID_VACANT
                            /\ last'.emitted = BP_SID_VACANT
                            /\ current_active_cid' = current_active_cid)]_vars

\* load has dropped the bundle in the slot at current_active_cid and
\* installed the fresh custody bundle it dequeued in that slot
C24_Witness ==
    /\ last.op = "load"
    /\ attributes.wrap_response = "DROP"
    /\ last.path = <<"wrap_drop">>
    /\ last.status = "SIZE"
    /\ stats.lost = 1
    /\ last.emitted # BP_SID_VACANT
    /\ active_table[ATI(last.cid)].sid = last.emitted
    /\ current_active_cid = last.cid + 1

\* C25: with wrap_response RESEND, the oldest active bundle live and not
\* timed out and the slot at current_active_cid occupied, load emits the
\* bundle held in that slot under the new CID current_active_cid, keeps its
\* sid in that slot with retx = sysnow and increments oldest_active_cid,
\* current_active_cid and stats.retransmitted by one each; if the retrieval
\* of that bundle fails, the slot is vacated and stats.lost incremented
\* instead, and nothing is retransmitted.
C25_WrapResend ==
    [][(WrapStep /\ attributes.wrap_response = "RESEND")
       => LET ati == ATI(current_active_cid)
              sid == active_table[ati].sid
          IN
          IF sid \in store.held
          THEN /\ last'.status = "SIZE"
               /\ last'.emitted = sid
               /\ last'.cid = current_active_cid
               /\ store'.data[sid].cid = current_active_cid
               /\ active_table' = [active_table EXCEPT ![ati] = [sid |-> sid, retx |-> sysnow]]
               /\ sid \in store'.held
               /\ oldest_active_cid' = oldest_active_cid + 1
               /\ current_active_cid' = current_active_cid + 1
               /\ stats'.retransmitted = 1
               /\ stats'.lost = 0
          ELSE /\ last'.emitted # sid
               /\ active_table'[ati].sid # sid
               /\ last'.path = <<"wrap_resend_failed">>
               /\ stats'.lost >= 1
               /\ stats'.retransmitted = 0]_vars

\* a step that is a call of load during which the custody store handed out
\* a queued DACS bundle
LoadDacsStep ==
    /\ Idle
    /\ last'.op = "load"
    /\ last'.calls # <<>> /\ last'.calls[1][1] = "dequeue_dacs"

\* the call scanned no slot, dequeued nothing from the bundle store and left
\* the active table, the two CIDs and the bundle store as they were
NoActiveTableWork ==
    /\ last'.path = <<"dacs">>
    /\ ~Dequeued(last')
    /\ \A k \in 1 .. Len(last'.calls) : last'.calls[k][1] \in {"dequeue_dacs", "relinquish_dacs"}
    /\ UNCHANGED <<active_table, oldest_active_cid, current_active_cid, store, issued>>

\* C26 (as claimed): whenever the DACS storage holds a queued DACS bundle,
\* load returns that bundle with the ROUTE_NEEDED flag set, scans no slot and
\* dequeues nothing from the bundle storage: oldest_active_cid,
\* current_active_cid and every slot are unchanged.
C26_DacsFirst ==
    [][LoadDacsStep
       => (/\ last'.status = "SIZE"
           /\ "ROUTENEEDED" \in last'.flags
           /\ NoActiveTableWork)]_vars

\* C26 (amended): whenever the DACS storage holds a queued DACS bundle, load
\* sets ROUTE_NEEDED, scans no slot and dequeues nothing from the bundle
\* storage, and leaves oldest_active_cid, current_active_cid and every slot
\* unchanged; it returns the DACS bundle (and counts it transmitted) when the
\* bundle can be copied out, and BUNDLETOOLARGE or FAILEDMEM (counting it
\* lost) when it cannot; either way the DACS bundle is relinquished once.
C26_DacsFirstOrLost ==
    [][LoadDacsStep
       => (/\ "ROUTENEEDED" \in last'.flags
           /\ NoActiveTableWork
           /\ last'.calls = <<<<"dequeue_dacs", 0, TRUE>>, <<"relinquish_dacs", 0, TRUE>>>>
           /\ last'.emitted = BP_SID_VACANT
           /\ \/ /\ last'.status = "SIZE"
                 /\ stats'.transmitted = 1 /\ stats'.lost = 0
              \/ /\ last'.status \in {"BUNDLETOOLARGE", "FAILEDMEM"}
                 /\ stats'.transmitted = 0 /\ stats'.lost = 1)]_vars

\* load has returned a DACS bundle while a timed-out bundle was waiting in
\* the active table and another one in the bundle store
C26_Witness ==
    /\ last.op = "load"
    /\ last.status = "SIZE"
    /\ last.path = <<"dacs">>
    /\ "ROUTENEEDED" \in last.flags
    /\ OldestLive /\ OldestTimedOut
    /\ store.queue # <<>>

\* the emission step of load given a bundle without a CTEB, whatever the
\* active table holds at that moment: one relinquish of its sid, no entry
\* installed, the two CIDs and every slot as they were, one transmission
NonCustodialSent ==
    \A sid \in Sids \ {active_table[i].sid : i \in Slots} :
        LET c == [Call("load") EXCEPT !.data = "BUNDLE",
                                      !.sid = sid,
                                      !.store.held = @ \cup {sid},
                                      !.store.data[sid].cteb = FALSE]
            res == SendBundle(c, sysnow, "ok")
        IN
        /\ res.status = "SIZE" /\ res.emitted = sid
        /\ res.calls = <<<<"relinquish", sid, TRUE>>>>
        /\ sid \notin res.store.held
        /\ res.active_table = active_table
        /\ res.current = current_active_cid
        /\ res.oldest = oldest_active_cid
        /\ res.issued = issued
        /\ res.stats.transmitted = 1

\* C27: when load emits a bundle that carries no CTEB it relinquishes the
\* bundle's sid exactly once, installs no active-table entry, leaves
\* current_active_cid and all slots unchanged, and stats.transmitted grows by
\* one: in every call of load that emits such a bundle, and for the emission
\* step applied to such a bundle over any table the channel reaches.
C27_NonCustodialNotRetained ==
    /\ []NonCustodialSent
    /\ [][(/\ Idle
           /\ last'.op = "load"
           /\ last'.status = "SIZE"
           /\ last'.emitted # BP_SID_VACANT
           /\ ~store.data[last'.emitted].cteb)
          => LET sid == last'.emitted
                 n == Len(last'.calls)
             IN
             /\ Cardinality({k \in 1 .. n : last'.calls[k][1] = "relinquish"
                                            /\ last'.calls[k][2] = sid}) = 1
             /\ last'.calls[n] = <<"relinquish", sid, TRUE>>
             /\ sid \notin store'.held
             /\ \A i \in Slots : active_table'[i].sid # sid
             /\ UNCHANGED <<active_table, current_active_cid, issued>>
             /\ stats'.transmitted = 1]_vars

\* load has emitted a non-custodial bundle after it dequeued and dropped an
\* expired one
C27_Witness ==
    /\ last.op = "load"
    /\ last.status = "SIZE"
    /\ last.emitted # BP_SID_VACANT
    /\ ~store.data[last.emitted].cteb
    /\ stats.expired = 1
    /\ stats.transmitted = 1
    /\ last.emitted \notin store.held

\* the number of iterations the scan loop of the call of res made
ScanIterations(res) == Cardinality({k \in 1 .. Len(res.path) : res.path[k] # "dacs"})

\* C28: every call of load finishes, and the number of iterations of its
\* active-table scan loop in one call is at most the active-table size.
C28_BoundedScan ==
    [][(Idle /\ last'.op = "load") => ScanIterations(last') <= ActiveTableSize]_vars

(* ============ properties of the ACS writer and reader, continued ====== *)
\* the writer has been run on the tree
AcsWritten == acs.phase \in {"written", "failed", "read"}

\* the CIDs the record encodes: those a reader that honours every
\* acknowledgment is led to by its first CID, runs and gaps
EncodedCids ==
    LET r == dacs_read_record(acs.rec, acs.rec_size, {}) IN
    {r.acks[k] : k \in 1 .. Len(r.acks)}

\* the CIDs the tree still covers after the writer has popped its ranges
RemainingCids == acs.cids \ acs.written

\* the fill values the writer encoded after the first CID: one run for the
\* first range popped, a gap and a run for each further one
EncodedFills == 2 * Len(TreeRanges(acs.written)) - 1

\* every field the writer wrote fits its width: the first CID four 7-bit
\* groups, every run and every gap written two
WrittenFieldsFit ==
    LET ranges == TreeRanges(acs.written) IN
    /\ ranges[1].value < Pow128(4)
    /\ \A k \in 1 .. Len(ranges) : ranges[k].offset + 1 < Pow128(2)
    /\ \A k \in 2 .. Len(ranges) :
          ranges[k].value - (ranges[k - 1].value + ranges[k - 1].offset + 1) < Pow128(2)

GapCids == {x \in Lowest(acs.written) .. RunEnd(acs.written, Lowest(acs.written)) + MaxRecvCid :
               /\ x \notin acs.written
               /\ \E y \in acs.written : y > x}

RECURSIVE FreeFrom(_, _, _)
FreeFrom(tree, n, depth) ==
    IF n = NULL \/ depth = 0 THEN <<>>
    ELSE <<n>> \o FreeFrom(tree, tree.node[n].left, depth - 1)

FreeNodes(tree) == FreeFrom(tree, tree.free_node_tail, tree.max_size + 1)

\* the node block of the tree was allocated
Allocated(tree) == DOMAIN tree.node = NodeIds(tree)

\* C31: in every state of a tree created with capacity max_size, the number
\* of nodes reachable from the root equals size, size plus the length of the
\* free list equals max_size, no node is both in the tree and on the free
\* list, and is_full is true exactly when the free list is empty.
C31_PoolAccounting ==
    LET tree == rb.tree
        free == FreeNodes(tree)
    IN /\ ~tree.fault
       /\ Len(TreeNodes(tree)) = tree.size
       /\ Cardinality(Linked(tree)) = tree.size
       /\ tree.size + Len(free) = tree.max_size
       /\ Cardinality({free[k] : k \in 1 .. Len(free)}) = Len(free)
       /\ Linked(tree) \cap {free[k] : k \in 1 .. Len(free)} = {}
       /\ is_full(tree) <=> free = <<>>
       /\ (tree.free_node_head = NULL) <=> (tree.free_node_tail = NULL)

\* with its node block allocated the pool of the tree is accounted for
PoolAccountingWhenAllocated == Allocated(rb.tree) => C31_PoolAccounting

(* ================== properties of the SDNV byte format ================ *)
\* the byte at place k of a value written most-significant group first in w
\* bytes: its 7-bit group, with the continuation bit on all but the last
SdnvByte(value, w, k) ==
    ((value \div Pow128((w - 1) - k)) % 128) + (IF k < w - 1 THEN 128 ELSE 0)

\* C32: a write with a fixed width w > 0 that fits in the buffer
\* (w <= size - index) changes the w bytes at index .. index + w - 1 and no
\* other byte, returns w, sets the continuation bit 0x80 on every written
\* byte but the last, and places the 7-bit groups of the value
\* most-significant first, zero-extended at the high end; a write of the
\* value 0 with width <= 0 writes no byte at all.
C32_SdnvWriteFormat ==
    codec.phase = "written" =>
        LET sdnv == codec.sdnv
            w == sdnv.width
        IN /\ (w > 0 /\ w <= codec.size - sdnv.index) =>
                  /\ codec.wbytes = w
                  /\ ~codec.oob
                  /\ \A i \in DOMAIN codec.block :
                        IF sdnv.index <= i /\ i < sdnv.index + w
                        THEN codec.block[i] = SdnvByte(sdnv.value, w, i - sdnv.index)
                        ELSE codec.block[i] = NoCodec.block[i]
           /\ (w <= 0 /\ sdnv.value = 0) =>
                  /\ codec.wbytes = 0
                  /\ ~codec.oob
                  /\ codec.block = NoCodec.block

\* the end of the span a read may examine: index + width for a width >= 0,
\* the size for a width < 0, and never past the buffer
SpanEnd(size, sdnv) ==
    IF sdnv.width < 0 \/ sdnv.index + sdnv.width > size THEN size
    ELSE sdnv.index + sdnv.width

\* the bytes of the span with the high bit clear
LastBytes(block, size, sdnv) ==
    {i \in sdnv.index .. (SpanEnd(size, sdnv) - 1) : block[i] < 128}

\* the value of the 7-bit groups of the bytes i .. term
RECURSIVE GroupsValue(_, _, _)
GroupsValue(block, i, term) ==
    IF i > term THEN 0
    ELSE ((block[i] % 128) * Pow128(term - i)) + GroupsValue(block, i + 1, term)

\* C33: a read with width >= 0 examines only the bytes from index up to, not
\* including, index + width, and with width < 0 up to size; when a byte with
\* the high bit clear is inside that span the call returns the number of
\* bytes consumed and the decoded value and sets no flag; when there is
\* none it sets OVERFLOW, and it sets INCOMPLETE when the buffer ended while
\* the continuation bit was still set.
C33_SdnvReadSpan ==
    codec.phase = "decoded" =>
        LET sdnv == codec.sdnv
            end == SpanEnd(codec.size, sdnv)
            ends == LastBytes(codec.block, codec.size, sdnv)
        IN /\ sdnv.index + codec.rbytes <= (IF end < sdnv.index THEN sdnv.index ELSE end)
           /\ IF ends # {}
              THEN /\ codec.rbytes = (Lowest(ends) + 1) - sdnv.index
                   /\ codec.rvalue = GroupsValue(codec.block, sdnv.index, Lowest(ends))
                   /\ codec.rflags = {}
              ELSE /\ "OVERFLOW" \in codec.rflags
                   /\ (end = codec.size /\ sdnv.index < codec.size) =>
                          "INCOMPLETE" \in codec.rflags

(* ============ properties across the calls of the channel ============== *)
\* the occupied slots whose bundle was last emitted under a CID of the record
NamedSlots(rec) ==
    {i \in NonVacant : store.data[active_table[i].sid].cid \in CoveredCids(rec)}

\* C34: an acknowledgment releases only the bundle it names: process never
\* relinquishes, for an acknowledged CID c, a bundle whose most recent
\* emission carried another CID (a late or duplicate DACS for a CID below
\* oldest_active_cid, at or above current_active_cid, or congruent to a newer
\* CID modulo the table size); such an acknowledgment leaves the table as it
\* was and is not counted in stats.acknowledged.
C34_AckReleasesNamedOnly ==
    Idle =>
      \A rec \in AckRecords :
        LET res == Process(Call("process"), "PENDINGACKNOWLEDGMENT", rec) IN
        /\ \A i \in Slots \ NamedSlots(rec) :
              /\ res.active_table[i] = active_table[i]
              /\ ~Relinquished(res, active_table[i].sid)
        /\ res.stats.acknowledged <= Cardinality(NamedSlots(rec))

\* the call of load as it reaches its emission step
BeforeSend(in) ==
    DequeueStored(LoadActive(LoadDacs(Call("load"), in.dacs), sysnow), sysnow, in.deq_ok)

\* the emission step of every call of load installs into a vacant slot, or
\* into the slot that holds the same sid
EmissionKeepsOccupied ==
    (Idle /\ current_active_cid < MaxCid) =>
        \A in \in LoadInputs :
            LET c == BeforeSend(in)
                res == SendBundle(c, sysnow, in.buf)
            IN \A i \in Slots :
                  \/ res.active_table[i].sid = c.active_table[i].sid
                  \/ c.active_table[i].sid = BP_SID_VACANT

\* C35: no retained bundle is overwritten in silence: in every sequence of
\* store, load, process and flush calls, for every wrap_response and
\* cid_reuse, the emission step of load never stores a new sid into a slot
\* that holds another, non-vacant sid, and a custodial bundle leaves the
\* active table only through acknowledgment, expiry, retransmission, wrap
\* DROP or flush, each of which relinquishes it or installs it again.
C35_NoSilentOverwrite ==
    /\ []EmissionKeepsOccupied
    /\ [][\A i \in Slots :
             LET sid == active_table[i].sid IN
             (sid # BP_SID_VACANT /\ \A j \in Slots : active_table'[j].sid # sid)
                 => Relinquished(last', sid)]_vars

(* ============ properties of the calls of load in progress ============ *)
\* a step in which the call of load of thread t runs its emission section
SendStep(t) == loaders[t].phase = "scanned" /\ loaders'[t].phase = "none"

\* C36: with one thread in load and another in process on the same channel,
\* in every interleaving of their lock-protected sections, when process
\* acknowledges and relinquishes a bundle after the scan of load selected it
\* for retransmission and before the emission section of load runs, load
\* neither installs the relinquished sid into the active table nor leaves a
\* slot that refers to it; and two concurrent calls of load never install
\* two bundles into the same slot.
C36_LoadProcessRace ==
    [][\A t \in Threads :
          SendStep(t) =>
              /\ loaders[t].sid \in loaders[t].released =>
                     \A i \in Slots : active_table'[i].sid # loaders[t].sid
              /\ \A i \in Slots :
                     \/ active_table'[i].sid = active_table[i].sid
                     \/ active_table[i].sid = BP_SID_VACANT
                     \/ active_table[i].sid \notin store.held]_vars

(* ==================== properties of retransmission ==================== *)
\* the bundle sid was emitted with custody, is still held and in the active
\* table, and a timeout window has passed since its last emission
Due(sid) ==
    /\ attributes.timeout # 0
    /\ sid \in store.held
    /\ \E i \in Slots :
          /\ active_table[i].sid = sid
          /\ sysnow >= active_table[i].retx + attributes.timeout

\* a call of load has just emitted the bundle sid
Reemitted(sid) == last.op = "load" /\ last.status = "SIZE" /\ last.emitted = sid

\* C37: with timeout # 0, an infinite lifetime, load called again and again
\* while time advances and no acknowledgment arriving, a custody bundle
\* that has been emitted is emitted again after every further timeout
\* window, with cid_reuse true and with cid_reuse false, even when no new
\* bundle is stored in the meantime (as long as load has a CID below MaxCid
\* to assign).
C37_KeepsRetransmitting ==
    \A sid \in Sids : Due(sid) ~> (Reemitted(sid) \/ current_active_cid >= MaxCid)

(* ================== properties of relinquish calls ==================== *)
\* the storage service handed sid to the engine in an earlier dequeue
Handed(sid) ==
    /\ sid \in Sids
    /\ sid < store.next
    /\ \A k \in 1 .. Len(store.queue) : store.queue[k] # sid

\* the k-th storage call of the last API call relinquished a bundle that a
\* relinquish call had released before
RelinquishedAgain(k) ==
    /\ last.calls[k][1] = "relinquish"
    /\ ~last.calls[k][3]
    /\ Handed(last.calls[k][2])

\* C38: across any single-threaded sequence of store, load, process and
\* flush calls the engine never calls the storage service's relinquish twice
\* for the same sid, load failures on a bundle taken from the active table
\* included.
C38_RelinquishOnce == \A k \in 1 .. Len(last.calls) : ~RelinquishedAgain(k)

(* ===================== properties of expiry ========================== *)
\* the last call was a load that returned the data bundle sid
LoadReturned(sid) ==
    last.op = "load" /\ last.status = "SIZE" /\ sid # BP_SID_VACANT /\ last.emitted = sid

\* data->exprtime != 0 && sysnow >= data->exprtime for the stored bundle sid
ExpiredNow(sid) == store.data[sid].exprtime # 0 /\ sysnow >= store.data[sid].exprtime

\* C39: no call to load returns a data bundle, whether taken from the
\* active table by timeout retransmit or wrap RESEND or freshly dequeued,
\* whose exprtime is not 0 and is <= the sysnow sampled by that call.
C39_NeverEmitsExpired == \A sid \in Sids : LoadReturned(sid) => ~ExpiredNow(sid)

(* ================ properties of the represented set =================== *)
\* the values of the range [value, value + offset) of a node, counted in
\* uint32_t
RangeValues(nd) == {Add32(nd.value, k) : k \in 0 .. (nd.offset - 1)}

\* the values covered by the ranges of the tree
CoveredValues(tree) == UNION {RangeValues(tree.node[n]) : n \in Linked(tree)}

\* the call of insert made in this step found the pool exhausted when it
\* needed a node for its value: the tree is full and stays as it was, and
\* the value is in none of its ranges
LackedNode ==
    /\ is_full(rb.tree)
    /\ rb'.tree = rb.tree
    /\ rb'.value \notin CoveredValues(rb.tree)

\* the ranges of the tree cover exactly the values passed to insert
RepresentsInserted == CoveredValues(rb.tree) = rb.seen

====
